---- MODULE Spec2Model ----
(***************************************************************************)
(* Callback registry of eomaps/_cb_container.py: the click, pick and       *)
(* keypress containers of a Maps object, their _add_callback / remove      *)
(* methods and the attached_callbacks enumeration.                         *)
(*                                                                         *)
(* Python strings are modelled as sequences of one-character strings, so   *)
(* that the formatting of an identity ("mark_0__single__1") and its        *)
(* parsing in remove (split("__"), rsplit("_", 1), int()) are computed as  *)
(* the code computes them.                                                 *)
(*                                                                         *)
(* A dict is a sequence of [k, v] records in insertion order.  The two     *)
(* outer defaultdict levels of get.cbs are a function over the buckets: a  *)
(* bucket that was never created and an empty bucket are both the empty    *)
(* sequence (attached_callbacks, remove and _add_callback do not           *)
(* distinguish them), and attached_callbacks visits the buckets in the     *)
(* fixed order ClickBucketOrder / KeyOrder.                                *)
(*                                                                         *)
(* _add_callback and remove are operators from (registry, arguments) to    *)
(* the outcome of the call (exception or return value, registry after the  *)
(* call); the actions apply them, and ret keeps what the last call         *)
(* raised, found and cleaned up.                                           *)
(*                                                                         *)
(* The host handlers (clickcb, pickcb, _onpress) are operators from the    *)
(* registries, the forwarding dicts and the host event to the trace of the *)
(* handler: the callbacks it calls with their payload, the clear actions   *)
(* it appends and the updates it requests, in the order of the code.       *)
(* cycle keeps the host event handled last and its trace.                  *)
(*                                                                         *)
(* temporary_artists is the list of each container, artists_to_clear the   *)
(* queues of the blit manager of each Maps object, one per event class.    *)
(***************************************************************************)
EXTENDS Integers, Sequences, FiniteSets, TLC

VARIABLES cbs, ret, fwd, ax, seed, cycle, temporary_artists, artists_to_clear

vars == <<cbs, ret, fwd, ax, seed, cycle, temporary_artists, artists_to_clear>>

\* the lists of artists
arts == <<temporary_artists, artists_to_clear>>

(***************************************************************************)
(* Bounds                                                                  *)
(***************************************************************************)
\* largest number of entries attached at the same time (all containers)
MaxEntries == 2
\* largest sequence number an attach may assign
MaxSeq == 1
\* largest number of temporary artists made
MaxArtists == 3

(***************************************************************************)
(* Python str operations                                                   *)
(***************************************************************************)
Digits == <<"0", "1", "2", "3", "4", "5", "6", "7", "8", "9">>

RECURSIVE IntToStr(_)
\* f"{n}" for a non-negative int
IntToStr(n) ==
    IF n < 10 THEN <<Digits[n + 1]>>
    ELSE IntToStr(n \div 10) \o <<Digits[(n % 10) + 1]>>

IsDigit(c) == \E i \in 1..10 : Digits[i] = c

DigitVal(c) == (CHOOSE i \in 1..10 : Digits[i] = c) - 1

\* int(s) succeeds (decimal digits only; signs and blanks are not in the alphabet)
IsInt(s) == Len(s) > 0 /\ \A i \in 1..Len(s) : IsDigit(s[i])

RECURSIVE StrToInt(_)
\* int(s)
StrToInt(s) ==
    IF Len(s) = 1 THEN DigitVal(s[1])
    ELSE 10 * StrToInt(SubSeq(s, 1, Len(s) - 1)) + DigitVal(s[Len(s)])

\* s.startswith(p)
StartsWith(s, p) == Len(s) >= Len(p) /\ SubSeq(s, 1, Len(p)) = p

RECURSIVE FindFrom(_, _, _)
\* index of the first occurrence of sep in s at or after i, 0 if there is none
FindFrom(s, sep, i) ==
    IF i + Len(sep) - 1 > Len(s) THEN 0
    ELSE IF \A k \in 1..Len(sep) : s[i + k - 1] = sep[k] THEN i
    ELSE FindFrom(s, sep, i + 1)

Find(s, sep) == FindFrom(s, sep, 1)

RECURSIVE RFindFrom(_, _, _)
\* index of the last occurrence of sep in s at or before i, 0 if there is none
RFindFrom(s, sep, i) ==
    IF i < 1 THEN 0
    ELSE IF \A k \in 1..Len(sep) : s[i + k - 1] = sep[k] THEN i
    ELSE RFindFrom(s, sep, i - 1)

RFind(s, sep) == RFindFrom(s, sep, Len(s) - Len(sep) + 1)

RECURSIVE Split(_, _)
\* s.split(sep)
Split(s, sep) ==
    LET j == Find(s, sep)
    IN  IF j = 0 THEN <<s>>
        ELSE <<SubSeq(s, 1, j - 1)>> \o Split(SubSeq(s, j + Len(sep), Len(s)), sep)

\* s.rsplit(sep, 1)
RSplit1(s, sep) ==
    LET j == RFind(s, sep)
    IN  IF j = 0 THEN <<s>>
        ELSE <<SubSeq(s, 1, j - 1), SubSeq(s, j + Len(sep), Len(s))>>

(***************************************************************************)
(* String constants                                                        *)
(***************************************************************************)
Sep == <<"_", "_">>
Us == <<"_">>

single == <<"s", "i", "n", "g", "l", "e">>
double == <<"d", "o", "u", "b", "l", "e">>

mark == <<"m", "a", "r", "k">>
annotate == <<"a", "n", "n", "o", "t", "a", "t", "e">>
load == <<"l", "o", "a", "d">>
switch_layer == <<"s", "w", "i", "t", "c", "h", "_", "l", "a", "y", "e", "r">>
\* a name that is no pre-defined callback
nope == <<"n", "o", "p", "e">>
\* __name__ of a custom function
load_ == <<"l", "o", "a", "d", "_">>

cleanup == <<"c", "l", "e", "a", "n", "u", "p">>

\* f"_{fname}_cleanup"
CleanupName(fname) == Us \o fname \o Us \o cleanup

(***************************************************************************)
(* Instances, containers, buckets                                          *)
(***************************************************************************)
Maps == {"A"}

ClickMethods == {"click", "pick"}
Methods == {"click", "pick", "keypress"}

Keys == {<<"a">>, <<"b">>}

\* (click-arity, button) in the order attached_callbacks lists them
ClickBucketOrder == <<<<single, 1>>, <<single, 3>>, <<double, 1>>, <<double, 3>>>>
KeyOrder == <<<<"a">>, <<"b">>>>

ClickBuckets == {ClickBucketOrder[i] : i \in 1..Len(ClickBucketOrder)}

BucketsOf(method) == IF method \in ClickMethods THEN ClickBuckets ELSE Keys

BucketOrderOf(method) == IF method \in ClickMethods THEN ClickBucketOrder ELSE KeyOrder

(***************************************************************************)
(* The callback classes (eomaps.callbacks): pre-defined callbacks in       *)
(* catalog order, and the attributes hasattr() finds on them               *)
(***************************************************************************)
CbList(method) ==
    IF method \in ClickMethods THEN <<mark, load>> ELSE <<switch_layer>>

CleanupHooks(method) ==
    IF method \in ClickMethods THEN {CleanupName(mark)} ELSE {}

\* hasattr(self._cb, name)
HasAttr(method, name) ==
    \/ \E i \in 1..Len(CbList(method)) : CbList(method)[i] = name
    \/ name \in CleanupHooks(method)

(***************************************************************************)
(* dict operations (insertion ordered)                                     *)
(***************************************************************************)
\* (variant: membership decided by the name before the last "_")
DictHasBase(d, k) == \E i \in 1..Len(d) : RSplit1(d[i].k, Us)[1] = RSplit1(k, Us)[1]

\* k in d
DictHas(d, k) == \E i \in 1..Len(d) : d[i].k = k

\* d[k] = v
DictSet(d, k, v) ==
    IF DictHas(d, k)
    THEN [i \in 1..Len(d) |-> IF d[i].k = k THEN [k |-> k, v |-> v] ELSE d[i]]
    ELSE Append(d, [k |-> k, v |-> v])

\* del d[k]
DictDel(d, k) == SelectSeq(d, LAMBDA e : e.k # k)

(***************************************************************************)
(* Inputs of the calls                                                     *)
(***************************************************************************)
\* callback argument: a str naming a pre-defined callback, or a function
Callback(isstr, name) == [str |-> isstr, name |-> name]

\* **kwargs is the set of its keyword names (double_click, button and key
\* are parameters of _add_callback and never end up in kwargs)
Call(callback, kwargs) == [callback |-> callback, kwargs |-> kwargs]

\* (callback, kwargs) of the attach calls
CallsOf(method) ==
    IF method = "click"
    THEN {Call(Callback(TRUE, mark), {}), Call(Callback(TRUE, load), {}),
          Call(Callback(TRUE, load), {"pos"}), Call(Callback(TRUE, nope), {}),
          Call(Callback(FALSE, load_), {})}
    ELSE IF method = "pick"
    THEN {Call(Callback(TRUE, mark), {})}
    ELSE {Call(Callback(TRUE, switch_layer), {}), Call(Callback(TRUE, nope), {})}

\* where the attach calls put their entry: (double_click, button), or the key
TargetsOf(method) ==
    IF method = "click" THEN {<<FALSE, 1>>, <<TRUE, 3>>}
    ELSE IF method = "pick" THEN {<<FALSE, 1>>}
    ELSE Keys

\* the registry of one container without entries
EmptyRegistry(method) == [b \in BucketsOf(method) |-> <<>>]

(***************************************************************************)
(* Enumeration                                                             *)
(***************************************************************************)
\* f"{name}__{ds}__{b}" / f"{name}__{key}"
Identity(method, name, bucket) ==
    IF method \in ClickMethods
    THEN name \o Sep \o bucket[1] \o Sep \o IntToStr(bucket[2])
    ELSE name \o Sep \o bucket

RECURSIVE EnumFrom(_, _, _)
EnumFrom(method, reg, i) ==
    LET order == BucketOrderOf(method)
    IN  IF i > Len(order) THEN <<>>
        ELSE [j \in 1..Len(reg[order[i]]) |->
                 Identity(method, reg[order[i]][j].k, order[i])]
             \o EnumFrom(method, reg, i + 1)

\* get.attached_callbacks
attached_callbacks(method, reg) == EnumFrom(method, reg, 1)

SeqToSet(s) == {s[i] : i \in 1..Len(s)}

RECURSIVE LenFrom(_, _, _)
LenFrom(reg, order, i) ==
    IF i > Len(order) THEN 0 ELSE Len(reg[order[i]]) + LenFrom(reg, order, i + 1)

\* number of entries of one container
NumEntries(method, reg) == LenFrom(reg, BucketOrderOf(method), 1)

RECURSIVE SumOver(_, _)
SumOver(S, f) ==
    IF S = {} THEN 0
    ELSE LET x == CHOOSE y \in S : TRUE IN f[x] + SumOver(S \ {x}, f)

\* number of entries of all containers
TotalEntries(c) ==
    SumOver(DOMAIN c, [m \in DOMAIN c |-> NumEntries("click", c[m]["click"])
                                  + NumEntries("pick", c[m]["pick"])
                                  + NumEntries("keypress", c[m]["keypress"])])

(***************************************************************************)
(* _click_container._add_callback                                          *)
(***************************************************************************)
ReservedNames == {"pos", "ID", "val", "double_click", "button"}

\* the condition of the first assert
KwargsAllowed(kwargs) == ~(\A i \in ReservedNames : i \in kwargs)

multi_cb_functions == {mark, annotate}

\* ncb: the sequence numbers of the keys of d that start with name
Ncb(d, name) ==
    {StrToInt(RSplit1(d[i].k, Us)[2]) : i \in {j \in 1..Len(d) : StartsWith(d[j].k, name)}}

SetMax(S) == CHOOSE x \in S : \A y \in S : x >= y

\* (variant: no numbering)
NewSeqFirst(d, name) == 0

\* (variant: numbering by len(ncb))
NewSeqLen(d, name) == Cardinality(Ncb(d, name))

\* (variant: max(ncb) without the increment)
NewSeqMax(d, name) ==
    LET ncb == Ncb(d, name) IN IF ncb # {} THEN SetMax(ncb) ELSE 0

\* (variant: the smallest number that no key of the name carries)
NewSeqSmallestFree(d, name) ==
    LET ncb == Ncb(d, name)
    IN  CHOOSE n \in 0..Cardinality(ncb) : n \notin ncb /\ \A o \in 0..(n - 1) : o \in ncb

\* the number put into cbkey
NewSeq(d, name) ==
    LET ncb == Ncb(d, name) IN IF ncb # {} THEN SetMax(ncb) + 1 ELSE 0

\* (variant: the assert on multiple assignments left out)
MultiAllowedAlways(d, name) == TRUE

\* the condition of the assert on multiple assignments
MultiAllowed(d, name) == name \in multi_cb_functions \/ Ncb(d, name) = {}

\* the callback after the name lookup / re-binding
Resolve(callback) == [name |-> callback.name, builtin |-> callback.str]

\* partial(callback, **kwargs)
Partial(callback, kwargs) == [func |-> Resolve(callback), kwargs |-> kwargs]

\* an assert that fails: nothing has been stored yet
Failed(reg, msg) ==
    [status |-> "AssertionError", msg |-> msg, reg |-> reg, id |-> <<>>, key |-> <<>>,
     bucket |-> <<>>]

\* d[cbkey] = partial(callback, **kwargs); return cbname
Stored(method, reg, bucket, cbkey, callback, kwargs) ==
    [status |-> "ok", msg |-> "",
     reg    |-> [reg EXCEPT ![bucket] = DictSet(reg[bucket], cbkey, Partial(callback, kwargs))],
     id     |-> Identity(method, cbkey, bucket),
     key    |-> cbkey,
     bucket |-> bucket]

\* (variant: the entry is stored before the assert on multiple assignments)
click_add_callback_StoreFirst(method, reg, callback, double_click, button, kwargs) ==
    LET bucket == <<IF double_click THEN double ELSE single, button>>
        d      == reg[bucket]
        name   == callback.name
        cbkey  == name \o Us \o IntToStr(NewSeq(d, name))
        stored == Stored(method, reg, bucket, cbkey, callback, kwargs)
    IN  IF ~KwargsAllowed(kwargs) THEN Failed(reg, "cannot be used as keyword-arguments")
        ELSE IF callback.str /\ ~HasAttr(method, name)
             THEN Failed(reg, "does not exist as a pre-defined callback")
        ELSE IF ~MultiAllowed(d, name) THEN Failed(stored.reg, "Multiple assignments")
        ELSE stored

click_add_callback(method, reg, callback, double_click, button, kwargs) ==
    LET bucket == <<IF double_click THEN double ELSE single, button>>
        d      == reg[bucket]
        name   == callback.name
        cbkey  == name \o Us \o IntToStr(NewSeq(d, name))
    IN  IF ~KwargsAllowed(kwargs) THEN Failed(reg, "cannot be used as keyword-arguments")
        ELSE IF callback.str /\ ~HasAttr(method, name)
             THEN Failed(reg, "does not exist as a pre-defined callback")
        ELSE IF ~MultiAllowed(d, name) THEN Failed(reg, "Multiple assignments")
        ELSE Stored(method, reg, bucket, cbkey, callback, kwargs)

(***************************************************************************)
(* keypress_container._add_callback                                        *)
(***************************************************************************)
key_add_callback(method, reg, callback, key, kwargs) ==
    LET cbdict == reg[key]
        name   == callback.name
        cbkey  == name \o Us \o IntToStr(NewSeq(cbdict, name))
    IN  IF callback.str /\ ~HasAttr(method, name)
        THEN Failed(reg, "does not exist as a pre-defined callback")
        ELSE Stored(method, reg, key, cbkey, callback, kwargs)

(***************************************************************************)
(* remove                                                                  *)
(***************************************************************************)
Removed(status, reg, hooks, hit) ==
    [status |-> status, reg |-> reg, cleanup |-> hooks, hit |-> hit]

\* the cleanup methods called for the entry name; d is the dict of the
\* bucket when they are called, and attached tells whether the entry is
\* still in it
CleanupCalls(method, d, name) ==
    LET fname == RSplit1(name, Us)[1]
    IN  IF HasAttr(method, CleanupName(fname))
        THEN <<[hook |-> CleanupName(fname), attached |-> DictHas(d, name)]>>
        ELSE <<>>

\* (variant: the cleanup method is called before the entry is deleted)
click_remove_CleanupFirst(method, reg, ID) ==
    LET parts == Split(ID, Sep)
    IN  IF Len(parts) # 3 THEN Removed("ValueError", reg, <<>>, FALSE)
        ELSE LET name == parts[1]
                 ds   == parts[2]
                 b    == parts[3]
             IN  IF ds \notin {single, double} THEN Removed("ok", reg, <<>>, FALSE)
                 ELSE IF ~IsInt(b) THEN Removed("ValueError", reg, <<>>, FALSE)
                 ELSE IF <<ds, StrToInt(b)>> \notin ClickBuckets
                      THEN Removed("ok", reg, <<>>, FALSE)
                 ELSE LET bucket == <<ds, StrToInt(b)>>
                      IN  IF DictHas(reg[bucket], name)
                          THEN Removed("ok",
                                       [reg EXCEPT ![bucket] = DictDel(reg[bucket], name)],
                                       CleanupCalls(method, reg[bucket], name), TRUE)
                          ELSE Removed("ok", reg, <<>>, FALSE)

\* _click_container.remove (ID is a str whose last part is an int: for any
\* other last part the code raises or returns depending on whether the
\* "single"/"double" level exists)
click_remove(method, reg, ID) ==
    LET parts == Split(ID, Sep)
    IN  IF Len(parts) # 3 THEN Removed("ValueError", reg, <<>>, FALSE)
        ELSE LET name == parts[1]
                 ds   == parts[2]
                 b    == parts[3]
             IN  IF ds \notin {single, double} THEN Removed("ok", reg, <<>>, FALSE)
                 ELSE IF ~IsInt(b) THEN Removed("ValueError", reg, <<>>, FALSE)
                 ELSE IF <<ds, StrToInt(b)>> \notin ClickBuckets
                      THEN Removed("ok", reg, <<>>, FALSE)
                 ELSE LET bucket == <<ds, StrToInt(b)>>
                      IN  IF DictHas(reg[bucket], name)
                          THEN Removed("ok",
                                       [reg EXCEPT ![bucket] = DictDel(reg[bucket], name)],
                                       CleanupCalls(method, DictDel(reg[bucket], name), name),
                                       TRUE)
                          ELSE Removed("ok", reg, <<>>, FALSE)

\* keypress_container.remove
key_remove(method, reg, ID) ==
    LET parts == Split(ID, Sep)
    IN  IF Len(parts) # 2 THEN Removed("ValueError", reg, <<>>, FALSE)
        ELSE LET name == parts[1]
                 key  == parts[2]
             IN  IF key \notin Keys THEN Removed("ok", reg, <<>>, FALSE)
                 ELSE IF DictHas(reg[key], name)
                      THEN Removed("ok",
                                   [reg EXCEPT ![key] = DictDel(reg[key], name)],
                                   CleanupCalls(method, DictDel(reg[key], name), name), TRUE)
                      ELSE Removed("ok", reg, <<>>, FALSE)

\* remove(ID) of the container
Remove(method, reg, ID) ==
    IF method \in ClickMethods THEN click_remove(method, reg, ID) ELSE key_remove(method, reg, ID)

(***************************************************************************)
(* cb_container._on_close                                                  *)
(***************************************************************************)
\* self._methods
close_methods == <<"click", "keypress">>

RECURSIVE remove_keys(_, _, _, _)
\* for key in obj.get.attached_callbacks: obj.remove(key); an exception of
\* remove ends the loop.  hooks are the cleanup methods called so far
remove_keys(method, reg, keys, hooks) ==
    IF keys = <<>> THEN Removed("ok", reg, hooks, TRUE)
    ELSE LET r == Remove(method, reg, Head(keys))
         IN  IF r.status # "ok" THEN Removed(r.status, r.reg, hooks \o r.cleanup, FALSE)
             ELSE remove_keys(method, r.reg, Tail(keys), hooks \o r.cleanup)

RECURSIVE close_from(_, _, _)
\* for method in self._methods, from method i on (cm: the containers of m.cb)
close_from(cm, i, hooks) ==
    IF i > Len(close_methods) THEN [status |-> "ok", cb |-> cm, cleanup |-> hooks]
    ELSE LET method == close_methods[i]
             r      == remove_keys(method, cm[method],
                                   attached_callbacks(method, cm[method]), hooks)
             after  == [cm EXCEPT ![method] = r.reg]
         IN  IF r.status # "ok" THEN [status |-> r.status, cb |-> after, cleanup |-> r.cleanup]
             ELSE close_from(after, i + 1, r.cleanup)

\* self._on_close(event)
on_close(cm) == close_from(cm, 1, <<>>)

\* identities remove is called with besides the attached ones
OtherIDs(method) ==
    IF method \in ClickMethods
    THEN {Identity(method, n \o Us \o <<"0">>, b) :
             n \in {mark, load}, b \in {<<single, 1>>, <<single, 3>>}}
    ELSE {Identity(method, n \o Us \o <<"0">>, b) :
             n \in {switch_layer}, b \in {<<"a">>, <<"b">>}}

RemoveIDs(method, reg) == SeqToSet(attached_callbacks(method, reg)) \cup OtherIDs(method)

(***************************************************************************)
(* The Maps objects of a run with several of them: A with its child B on   *)
(* one figure, C on a figure of its own.  A child draws into axes of its   *)
(* own or into the axes of its parent.                                     *)
(***************************************************************************)
Views == {"A", "B", "C"}

ViewOrder == <<"A", "B", "C">>

\* m.parent
Parent(m) == IF m = "B" THEN "A" ELSE m

\* m._children, of the Maps objects V of the run
Children(m, V) == SelectSeq(ViewOrder, LAMBDA c : c \in V /\ c # m /\ Parent(c) = m)

\* m.figure.f
Figure(m) == IF Parent(m) = "A" THEN "f1" ELSE "f2"

\* m.figure.ax for each m: axes of its own, or the axes of the parent
OwnAxes(V) == [m \in V |-> m]
SharedAxes(V) == [m \in V |-> Parent(m)]
Layouts(V) == {OwnAxes(V), SharedAxes(V)}

\* event.inaxes of a pointer position outside all axes
NoAxes == "none"

\* m.figure.coll
Coll(m) == m

\* m.crs_plot
crs_plot(m) == IF m = "C" THEN "p" ELSE "q"

(***************************************************************************)
(* pyproj.Transformer: a projection maps a geographic coordinate to a plot *)
(* coordinate (coordinates are taken modulo 3; projection "q" is shifted   *)
(* by one against "p")                                                     *)
(***************************************************************************)
Coords == 0..2

Shift(crs) == IF crs = "q" THEN 1 ELSE 0

Project(crs, g) == (g + Shift(crs)) % 3

Unproject(crs, x) == (x + 3 - Shift(crs)) % 3

\* Transformer.from_crs(crs_from, crs_to, always_xy=True)
from_crs(crs_from, crs_to) == [src |-> crs_from, dst |-> crs_to]

\* (variant: the point is not taken back from the source projection)
transform_NoInverse(t, x, y) == <<Project(t.dst, x), Project(t.dst, y)>>

\* transformer.transform(x, y)
transform(t, x, y) ==
    <<Project(t.dst, Unproject(t.src, x)), Project(t.dst, Unproject(t.src, y))>>

(***************************************************************************)
(* forward_events / share_events (_fwd_cbs is a dict id(m) -> m)           *)
(***************************************************************************)
NoForwarding(V) == [m \in V |-> [method \in Methods |-> <<>>]]

RECURSIVE forward_into(_, _, _)
\* for m in args: d[id(m)] = m
forward_into(d, args, i) ==
    IF i > Len(args) THEN d
    ELSE forward_into(DictSet(d, args[i], args[i]), args, i + 1)

\* (variant: the containers of all classes of m share one _fwd_cbs)
forward_events_AllClasses(f, m, method, args) ==
    [f EXCEPT ![m] = [o \in Methods |-> forward_into(f[m][o], args, 1)]]

\* self.forward_events(*args) on the container of m
forward_events(f, m, method, args) ==
    [f EXCEPT ![m][method] = forward_into(f[m][method], args, 1)]

\* (variant: only the caller forwards to the others)
share_from_OneWay(f, method, all, n) == forward_events(f, all[1], method, Tail(all))

RECURSIVE share_from(_, _, _, _)
\* the two loops over (self._m, *args), pair n of them
share_from(f, method, all, n) ==
    LET m1 == all[(n \div Len(all)) + 1]
        m2 == all[(n % Len(all)) + 1]
    IN  IF n >= Len(all) * Len(all) THEN f
        ELSE IF m1 # m2
             THEN share_from([f EXCEPT ![m1][method] = DictSet(f[m1][method], m2, m2)],
                             method, all, n + 1)
             ELSE share_from(f, method, all, n + 1)

\* self.share_events(*args) on the container of m
share_events(f, m, method, args) == share_from(f, method, <<m>> \o args, 0)

\* the Maps objects a container forwards to, in the order of the dict
Peers(f, m, method) == [i \in 1..Len(f[m][method]) |-> f[m][method][i].v]

(***************************************************************************)
(* _sort_cbs                                                               *)
(***************************************************************************)
\* __name__ of a second custom function
show == <<"s", "h", "o", "w">>

\* the names of the model
NameOrder == <<mark, annotate, load, switch_layer, load_, show, nope>>

Reverse(s) == [i \in 1..Len(s) |-> s[Len(s) + 1 - i]]

\* list(S) of a set of str: the order follows from the hashes of the
\* interpreter run (hash seed w)
ListOfSet(S, w) ==
    LET asc == SelectSeq(NameOrder, LAMBDA n : n \in S)
    IN  IF w = 0 THEN asc ELSE Reverse(asc)

\* seq.index(x) for an x that is in seq
IndexOf(s, x) == CHOOSE i \in 1..Len(s) : s[i] = x /\ \A j \in 1..(i - 1) : s[j] # x

RECURSIVE ConcatAll(_)
ConcatAll(ss) == IF ss = <<>> THEN <<>> ELSE Head(ss) \o ConcatAll(Tail(ss))

\* sorted(keys, key=...): stable; ranks[i] is the sort key of keys[i]
SortedBy(keys, ranks, top) ==
    LET at(p) == SelectSeq([i \in 1..Len(keys) |-> i], LAMBDA i : ranks[i] = p)
    IN  ConcatAll([p \in 1..top |-> [j \in 1..Len(at(p)) |-> keys[at(p)[j]]]])

\* (variant: the keys in the order of the dict)
sort_cbs_Unsorted(method, d, w) == [i \in 1..Len(d) |-> d[i].k]

\* self._sort_cbs(cbs) for the dict d of a bucket
sort_cbs(method, d, w) ==
    LET keys    == [i \in 1..Len(d) |-> d[i].k]
        cbnames == {RSplit1(keys[i], Us)[1] : i \in 1..Len(keys)}
        cb_list == CbList(method)
        cb_set  == SeqToSet(cb_list)
        sortp   == cb_list \o ListOfSet((cb_set \ cbnames) \cup (cbnames \ cb_set), w)
        ranks   == [i \in 1..Len(keys) |-> IndexOf(sortp, RSplit1(keys[i], Us)[1])]
    IN  IF keys = <<>> THEN <<>> ELSE SortedBy(keys, ranks, Len(sortp))

(***************************************************************************)
(* Host events and the traces of their handlers                            *)
(***************************************************************************)
None == -1

\* the keyword arguments a click / pick callback is called with
ClickDict(pos, ID, val, ind) == [pos |-> pos, ID |-> ID, val |-> val, ind |-> ind]

\* a button_press_event
ClickEvent(inaxes, dblclick, button, xdata, ydata) ==
    [inaxes |-> inaxes, dblclick |-> dblclick, button |-> button,
     xdata |-> xdata, ydata |-> ydata]

\* a pick_event on a collection (ind, dblclick and button are set by the picker)
PickEvent(artist, ind, dblclick, button, mouseevent) ==
    [artist |-> artist, ind |-> ind, dblclick |-> dblclick, button |-> button,
     mouseevent |-> mouseevent]

\* a key_press_event
KeyEvent(key) == [key |-> key]

\* the host when the event arrives: the parents whose axis-drag modifier is
\* pressed, the figures whose toolbar is in a mode other than "", and the
\* index m._pick_pixel finds for each m (None: no match)
Host(modifier, toolbar, pick_pixel) ==
    [modifier |-> modifier, toolbar |-> toolbar, pick_pixel |-> pick_pixel]

\* via of a step the host handler makes itself
Direct == "-"

\* steps of a trace: cb(**kwargs) of the entry key of m's container,
\* bm.BM._after_update_actions.append(obj._clear_temporary_artists) for the
\* container obj of m, bm.BM.update(clear=method); via is the Maps object
\* whose _fwd_cb is running when the step is made
Called(m, method, key, kwargs) ==
    [t |-> "cb", m |-> m, method |-> method, key |-> key, arg |-> kwargs, via |-> Direct]

AfterUpdate(bm, m, method) ==
    [t |-> "after_update", m |-> m, method |-> method, key |-> <<>>, arg |-> [bm |-> bm],
     via |-> Direct]

Update(bm, method) ==
    [t |-> "update", m |-> bm, method |-> method, key |-> <<>>, arg |-> [bm |-> bm],
     via |-> Direct]

\* the steps made while the _fwd_cb of m is running
Via(m, trace) == [i \in 1..Len(trace) |-> [trace[i] EXCEPT !.via = m]]

\* for key in self._sort_cbs(bcbs): bcbs[key](**clickdict)
RunBucket(m, method, d, kwargs, w) ==
    LET keys == sort_cbs(method, d, w)
    IN  [i \in 1..Len(keys) |-> Called(m, method, keys[i], kwargs)]

\* the bucket of an event
EventBucket(event) == <<IF event.dblclick THEN double ELSE single, event.button>>

\* cb_click_container._get_clickdict
get_clickdict(event) == ClickDict(<<event.xdata, event.ydata>>, None, None, None)

\* (variant: the entries of every bucket are called)
onclick_EveryBucket(c, w, m, event) ==
    ConcatAll([n \in 1..Len(ClickBucketOrder) |->
        RunBucket(m, "click", c[m]["click"][ClickBucketOrder[n]], get_clickdict(event), w)])

\* cb_click_container._onclick of m
onclick(c, w, m, event) ==
    IF EventBucket(event) \in ClickBuckets
    THEN RunBucket(m, "click", c[m]["click"][EventBucket(event)], get_clickdict(event), w)
    ELSE <<>>

\* the event cb_click_container._fwd_cb of m hands to the peer
click_dummyevent(a, m, peer, event) ==
    LET transformer == from_crs(crs_plot(peer), crs_plot(m))
        xy          == transform(transformer, event.xdata, event.ydata)
    IN  ClickEvent(a[peer], event.dblclick, event.button, xy[1], xy[2])

\* (variant: the replay into a peer runs the peer's _fwd_cb as well)
click_fwd_cb_Recursive(c, f, a, w, m, event) ==
    LET peers == Peers(f, m, "click")
        dummy(i) == click_dummyevent(a, m, peers[i], event)
        next(i) == Peers(f, peers[i], "click")
    IN  IF event.inaxes # a[m] THEN <<>>
        ELSE Via(m, ConcatAll([i \in 1..Len(peers) |->
                 onclick(c, w, peers[i], dummy(i))
                 \o ConcatAll([j \in 1..Len(next(i)) |->
                        onclick(c, w, next(i)[j],
                                click_dummyevent(a, peers[i], next(i)[j], dummy(i)))
                        \o <<AfterUpdate(next(i)[j], next(i)[j], "click")>>])
                 \o <<AfterUpdate(peers[i], peers[i], "click")>>]))

\* cb_click_container._fwd_cb of m
click_fwd_cb(c, f, a, w, m, event) ==
    LET peers == Peers(f, m, "click")
    IN  IF event.inaxes # a[m] THEN <<>>
        ELSE Via(m, ConcatAll([i \in 1..Len(peers) |->
                 onclick(c, w, peers[i], click_dummyevent(a, m, peers[i], event))
                 \o <<AfterUpdate(peers[i], peers[i], "click")>>]))

\* (variant: the event is forwarded before the own callbacks run)
clickcb_ForwardFirst(c, f, a, w, p, event, host) ==
    LET ms == <<p>> \o Children(p, DOMAIN c)
    IN  IF p \in host.modifier THEN <<>>
        ELSE IF Figure(p) \in host.toolbar THEN <<>>
        ELSE ConcatAll([i \in 1..Len(ms) |->
                 IF event.inaxes = a[ms[i]]
                 THEN click_fwd_cb(c, f, a, w, ms[i], event)
                      \o onclick(c, w, ms[i], event)
                      \o <<AfterUpdate(ms[i], ms[i], "click")>>
                 ELSE <<>>])
             \o <<Update(p, "click")>>

\* (variant: the mode of the toolbar is not looked at)
clickcb_NoToolbarGuard(c, f, a, w, p, event, host) ==
    LET ms == <<p>> \o Children(p, DOMAIN c)
    IN  IF p \in host.modifier THEN <<>>
        ELSE ConcatAll([i \in 1..Len(ms) |->
                 IF event.inaxes = a[ms[i]]
                 THEN onclick(c, w, ms[i], event)
                      \o click_fwd_cb(c, f, a, w, ms[i], event)
                      \o <<AfterUpdate(ms[i], ms[i], "click")>>
                 ELSE <<>>])
             \o <<Update(p, "click")>>

\* clickcb of the parent p
clickcb(c, f, a, w, p, event, host) ==
    LET ms == <<p>> \o Children(p, DOMAIN c)
    IN  IF p \in host.modifier THEN <<>>
        ELSE IF Figure(p) \in host.toolbar THEN <<>>
        ELSE ConcatAll([i \in 1..Len(ms) |->
                 IF event.inaxes = a[ms[i]]
                 THEN onclick(c, w, ms[i], event)
                      \o click_fwd_cb(c, f, a, w, ms[i], event)
                      \o <<AfterUpdate(ms[i], ms[i], "click")>>
                 ELSE <<>>])
             \o <<Update(p, "click")>>

\* movecb of the parent p (event.button is None while no button is held)
movecb(c, f, a, w, p, event, host) ==
    LET ms == <<p>> \o Children(p, DOMAIN c)
    IN  IF p \in host.modifier THEN <<>>
        ELSE IF Figure(p) \in host.toolbar THEN <<>>
        ELSE IF event.button = None THEN <<>>
        ELSE ConcatAll([i \in 1..Len(ms) |->
                 IF event.inaxes = a[ms[i]]
                 THEN onclick(c, w, ms[i], event)
                      \o click_fwd_cb(c, f, a, w, ms[i], event)
                      \o <<AfterUpdate(ms[i], ms[i], "click")>>
                 ELSE <<>>])
             \o <<Update(p, "click")>>

\* the data of m at index ind (m._props)
Props(m, ind) == ClickDict(<<ind % 3, (ind + 1) % 3>>, 10 + ind, 20 + ind, ind)

\* cb_pick_container._get_pickdict of m (NoDict: None)
NoDict == ClickDict(<<None, None>>, None, None, None)

get_pickdict(m, event) ==
    IF event.ind # None /\ event.artist = Coll(m) THEN Props(m, event.ind) ELSE NoDict

\* (variant: the callbacks are called although nothing was picked)
onpick_NullPayload(c, w, m, event, host) ==
    LET clickdict == get_pickdict(m, event)
        d         == c[m]["pick"][EventBucket(event)]
    IN  IF Figure(m) \in host.toolbar THEN <<>>
        ELSE IF event.artist # Coll(m) THEN <<>>
        ELSE IF EventBucket(event) \in ClickBuckets /\ d # <<>>
             THEN RunBucket(m, "pick", d, clickdict, w) \o <<Update(m, "pick")>>
        ELSE <<>>

\* cb_pick_container._onpick of m (the update is requested if the button has
\* a dict: here, if the bucket has entries)
\* (variant: the bucket of the single clicks is taken for every pick)
onpick_SingleBucket(c, w, m, event, host) ==
    LET clickdict == get_pickdict(m, event)
        d         == c[m]["pick"][<<single, event.button>>]
    IN  IF Figure(m) \in host.toolbar THEN <<>>
        ELSE IF event.artist # Coll(m) THEN <<>>
        ELSE IF EventBucket(event) \in ClickBuckets /\ d # <<>>
             THEN (IF clickdict # NoDict THEN RunBucket(m, "pick", d, clickdict, w) ELSE <<>>)
                  \o <<Update(m, "pick")>>
        ELSE <<>>

onpick(c, w, m, event, host) ==
    LET clickdict == get_pickdict(m, event)
        d         == c[m]["pick"][EventBucket(event)]
    IN  IF Figure(m) \in host.toolbar THEN <<>>
        ELSE IF event.artist # Coll(m) THEN <<>>
        ELSE IF EventBucket(event) \in ClickBuckets /\ d # <<>>
             THEN (IF clickdict # NoDict THEN RunBucket(m, "pick", d, clickdict, w) ELSE <<>>)
                  \o <<Update(m, "pick")>>
        ELSE <<>>

\* the event cb_pick_container._fwd_cb hands to the peer
pick_dummyevent(peer, event, host) ==
    PickEvent(Coll(peer), host.pick_pixel[peer], event.dblclick, event.button,
              [inaxes |-> NoAxes])

\* (variant: the replay into a peer runs the peer's _fwd_cb as well)
pick_fwd_cb_Recursive(c, f, a, w, m, event, host) ==
    LET peers == Peers(f, m, "pick")
        next(i) == Peers(f, peers[i], "pick")
    IN  IF event.mouseevent.inaxes # a[m] THEN <<>>
        ELSE Via(m, ConcatAll([i \in 1..Len(peers) |->
                 onpick(c, w, peers[i], pick_dummyevent(peers[i], event, host), host)
                 \o ConcatAll([j \in 1..Len(next(i)) |->
                        onpick(c, w, next(i)[j],
                               pick_dummyevent(next(i)[j], event, host), host)])]))

\* cb_pick_container._fwd_cb of m
pick_fwd_cb(c, f, a, w, m, event, host) ==
    LET peers == Peers(f, m, "pick")
    IN  IF event.mouseevent.inaxes # a[m] THEN <<>>
        ELSE Via(m, ConcatAll([i \in 1..Len(peers) |->
                 onpick(c, w, peers[i], pick_dummyevent(peers[i], event, host), host)]))

\* (variant: the clearing is scheduled before the event is forwarded)
pickcb_ClearFirst(c, f, a, w, p, event, host) ==
    LET ms == <<p>> \o Children(p, DOMAIN c)
    IN  IF p \in host.modifier THEN <<>>
        ELSE IF Figure(p) \in host.toolbar THEN <<>>
        ELSE ConcatAll([i \in 1..Len(ms) |->
                 onpick(c, w, ms[i], event, host)
                 \o <<AfterUpdate(p, ms[i], "pick")>>
                 \o pick_fwd_cb(c, f, a, w, ms[i], event, host)])

\* pickcb of the parent p
pickcb(c, f, a, w, p, event, host) ==
    LET ms == <<p>> \o Children(p, DOMAIN c)
    IN  IF p \in host.modifier THEN <<>>
        ELSE IF Figure(p) \in host.toolbar THEN <<>>
        ELSE ConcatAll([i \in 1..Len(ms) |->
                 onpick(c, w, ms[i], event, host)
                 \o pick_fwd_cb(c, f, a, w, ms[i], event, host)
                 \o <<AfterUpdate(p, ms[i], "pick")>>])

\* (variant: the entries of every key are called)
onpress_EveryKey(c, p, event) ==
    ConcatAll([n \in 1..Len(KeyOrder) |->
        [i \in 1..Len(c[p]["keypress"][KeyOrder[n]]) |->
            Called(p, "keypress", c[p]["keypress"][KeyOrder[n]][i].k, [key |-> event.key])]])

\* _onpress of the parent p
onpress(c, p, event) ==
    IF event.key \in Keys
    THEN LET d == c[p]["keypress"][event.key]
         IN  [i \in 1..Len(d) |-> Called(p, "keypress", d[i].k, [key |-> event.key])]
    ELSE <<>>

(***************************************************************************)
(* State machine of the registry                                           *)
(***************************************************************************)
\* the outcome of the last call: the exception raised ("ok" if none) and its
\* message, whether remove found the entry, and the cleanup methods it called
Outcome(op, status, msg, hit, hooks) ==
    [op |-> op, status |-> status, msg |-> msg, hit |-> hit, cleanup |-> hooks]

\* the host event handled last: the handler, the parent it belongs to, the
\* event, the host and the trace
Cycle(handler, p, event, host, trace) ==
    [handler |-> handler, on |-> p, event |-> event, host |-> host, trace |-> trace]

NoCycle == Cycle("", "", <<>>, <<>>, <<>>)

\* after construction of the Maps objects V
\* self._temporary_artists = [] of every container, and the empty queues
NoArtists(V) == [m \in V |-> [method \in Methods |-> <<>>]]

Constructed(V) ==
    /\ cbs = [m \in V |-> [method \in Methods |-> EmptyRegistry(method)]]
    /\ ret = Outcome("init", "ok", "", FALSE, <<>>)
    /\ fwd = NoForwarding(V)
    /\ cycle = NoCycle
    /\ temporary_artists = NoArtists(V)
    /\ artists_to_clear = NoArtists(V)

Init ==
    /\ Constructed(Maps)
    /\ ax = OwnAxes(Maps)
    /\ seed = 0

\* the bounds of the model: an attach that succeeds stays within them
AttachWithin(c, r) ==
    r.status = "ok" =>
        /\ TotalEntries(c) < MaxEntries
        /\ StrToInt(RSplit1(r.key, Us)[2]) <= MaxSeq

AttachClick(m, method, callback, double_click, button, kwargs) ==
    LET r == click_add_callback(method, cbs[m][method], callback, double_click, button, kwargs)
    IN  /\ AttachWithin(cbs, r)
        /\ cbs' = [cbs EXCEPT ![m][method] = r.reg]
        /\ ret' = Outcome("attach", r.status, r.msg, FALSE, <<>>)
        /\ cycle' = NoCycle
        /\ UNCHANGED <<fwd, ax, seed, arts>>

AttachKey(m, callback, key, kwargs) ==
    LET r == key_add_callback("keypress", cbs[m]["keypress"], callback, key, kwargs)
    IN  /\ AttachWithin(cbs, r)
        /\ cbs' = [cbs EXCEPT ![m]["keypress"] = r.reg]
        /\ ret' = Outcome("attach", r.status, r.msg, FALSE, <<>>)
        /\ cycle' = NoCycle
        /\ UNCHANGED <<fwd, ax, seed, arts>>

RemoveClick(m, method, ID) ==
    LET r == click_remove(method, cbs[m][method], ID)
    IN  /\ cbs' = [cbs EXCEPT ![m][method] = r.reg]
        /\ ret' = Outcome("remove", r.status, "", r.hit, r.cleanup)
        /\ cycle' = NoCycle
        /\ UNCHANGED <<fwd, ax, seed, arts>>

RemoveKey(m, ID) ==
    LET r == key_remove("keypress", cbs[m]["keypress"], ID)
    IN  /\ cbs' = [cbs EXCEPT ![m]["keypress"] = r.reg]
        /\ ret' = Outcome("remove", r.status, "", r.hit, r.cleanup)
        /\ cycle' = NoCycle
        /\ UNCHANGED <<fwd, ax, seed, arts>>

\* the close_event of the figure of m
OnClose(m) ==
    LET r == on_close(cbs[m])
    IN  /\ cbs' = [cbs EXCEPT ![m] = r.cb]
        /\ ret' = Outcome("_on_close", r.status, "", FALSE, r.cleanup)
        /\ cycle' = NoCycle
        /\ UNCHANGED <<fwd, ax, seed, arts>>

Next ==
    \/ \E m \in Maps, method \in ClickMethods :
          \E c \in CallsOf(method), t \in TargetsOf(method) :
             AttachClick(m, method, c.callback, t[1], t[2], c.kwargs)
    \/ \E m \in Maps, c \in CallsOf("keypress"), key \in Keys :
          AttachKey(m, c.callback, key, c.kwargs)
    \/ \E m \in Maps, method \in ClickMethods :
          \E ID \in RemoveIDs(method, cbs[m][method]) : RemoveClick(m, method, ID)
    \/ \E m \in Maps :
          \E ID \in RemoveIDs("keypress", cbs[m]["keypress"]) : RemoveKey(m, ID)
    \/ \E m \in Maps : OnClose(m)

Spec == Init /\ [][Next]_vars

(***************************************************************************)
(* Forwarding calls and host events                                        *)
(***************************************************************************)
Returned(op) == Outcome(op, "ok", "", FALSE, <<>>)

ForwardEvents(m, method, args) ==
    /\ fwd' = forward_events(fwd, m, method, args)
    /\ ret' = Returned("forward_events")
    /\ cycle' = NoCycle
    /\ UNCHANGED <<cbs, ax, seed, arts>>

ShareEvents(m, method, args) ==
    /\ fwd' = share_events(fwd, m, method, args)
    /\ ret' = Returned("share_events")
    /\ cycle' = NoCycle
    /\ UNCHANGED <<cbs, ax, seed, arts>>

\* (variant: a click that finds no entry on a Maps object raises KeyError)
HostClick_KeyError(p, event, host) ==
    LET trace == clickcb(cbs, fwd, ax, seed, p, event, host)
        miss  == \E m \in DOMAIN cbs :
                    /\ event.inaxes = ax[m]
                    /\ cbs[m]["click"][EventBucket(event)] = <<>>
    IN  /\ cycle' = Cycle("clickcb", p, event, host, IF miss THEN <<>> ELSE trace)
        /\ ret' = Outcome("clickcb", IF miss THEN "KeyError" ELSE "ok", "", FALSE, <<>>)
        /\ UNCHANGED <<cbs, fwd, ax, seed, arts>>

\* a button_press_event on the figure of the parent p
HostClick(p, event, host) ==
    /\ cycle' = Cycle("clickcb", p, event, host, clickcb(cbs, fwd, ax, seed, p, event, host))
    /\ ret' = Returned("clickcb")
    /\ UNCHANGED <<cbs, fwd, ax, seed, arts>>

\* a motion_notify_event on the figure of the parent p
HostMove(p, event, host) ==
    /\ cycle' = Cycle("movecb", p, event, host, movecb(cbs, fwd, ax, seed, p, event, host))
    /\ ret' = Returned("movecb")
    /\ UNCHANGED <<cbs, fwd, ax, seed, arts>>

\* a pick_event on the figure of the parent p
HostPick(p, event, host) ==
    /\ cycle' = Cycle("pickcb", p, event, host, pickcb(cbs, fwd, ax, seed, p, event, host))
    /\ ret' = Returned("pickcb")
    /\ UNCHANGED <<cbs, fwd, ax, seed, arts>>

\* a key_press_event on the figure of the parent p
HostKey(p, event, host) ==
    /\ cycle' = Cycle("_onpress", p, event, host, onpress(cbs, p, event))
    /\ ret' = Returned("_onpress")
    /\ UNCHANGED <<cbs, fwd, ax, seed, arts>>

\* the host with nothing pressed, idle toolbars and a match for every pick
Idle(V) == Host({}, {}, [m \in V |-> 0])

\* the modifier of the parent p is pressed
Dragging(p, V) == Host({p}, {}, [m \in V |-> 0])

\* the toolbar of the figure of p is in a mode other than ""
ToolbarActive(p, V) == Host({}, {Figure(p)}, [m \in V |-> 0])

\* m._pick_pixel finds nothing for any m
NoMatch(V) == Host({}, {}, [m \in V |-> None])

\* the toolbars of the other figures are in a mode other than ""
PeerToolbarActive(p, V) == Host({}, {Figure(m) : m \in V} \ {Figure(p)}, [m \in V |-> 0])

PointerHosts(p, V) == {Idle(V), Dragging(p, V), ToolbarActive(p, V)}

\* the modifier is pressed and the toolbar is in a mode
Busy(p, V) == Host({p}, {Figure(p)}, [m \in V |-> 0])

\* nothing is attached or forwarded in the containers of the other classes
OneClass(method) ==
    \A m \in DOMAIN cbs : \A o \in Methods \ {method} :
        NumEntries(o, cbs[m][o]) = 0 /\ fwd[m][o] = <<>>

\* a click / a pick of the data of m, in the bucket (ds, button)
ClickOn(a, m, dblclick, button, x, y) == ClickEvent(a[m], dblclick, button, x, y)

PickOn(a, m, ind, dblclick, button) ==
    PickEvent(Coll(m), ind, dblclick, button, [inaxes |-> a[m]])

\* an artist of the figure that is the collection of no Maps object
OtherArtist == "x"

\* a pick of that artist inside the axes of m
PickOther(a, m, ind, dblclick, button) ==
    PickEvent(OtherArtist, ind, dblclick, button, [inaxes |-> a[m]])

\* the indices picked
PickInds == {0, 1}

(***************************************************************************)
(* Runs of one Maps object: callbacks of several names in one bucket, and  *)
(* the events that run them                                                *)
(***************************************************************************)
OrderCallsOf(method) ==
    IF method = "click"
    THEN {Call(Callback(TRUE, mark), {}), Call(Callback(TRUE, load), {}),
          Call(Callback(FALSE, load_), {}), Call(Callback(FALSE, show), {})}
    ELSE IF method = "pick"
    THEN {Call(Callback(TRUE, mark), {}), Call(Callback(TRUE, load), {})}
    ELSE {Call(Callback(TRUE, switch_layer), {}), Call(Callback(FALSE, show), {})}

\* where the attach calls of these runs put their entry: every callback on
\* (single, 1) / key "a", load also on (double, 3), switch_layer also on "b"
OrderTargetsOf(method, callback) ==
    IF method = "keypress"
    THEN (IF callback.name = switch_layer THEN Keys ELSE {<<"a">>})
    ELSE IF callback.name = load THEN {<<FALSE, 1>>, <<TRUE, 3>>}
    ELSE {<<FALSE, 1>>}

\* the clicks of these runs: (dblclick, button)
OrderClicks == {<<FALSE, 1>>, <<TRUE, 3>>}

\* the keys pressed: the keys with entries, and one that never has any
PressKeys == Keys \cup {<<"c">>}

InitOrder ==
    /\ Constructed(Maps)
    /\ ax = OwnAxes(Maps)
    /\ seed \in {0, 1}

NextOrder ==
    \/ \E m \in Maps, method \in ClickMethods :
          \E c \in OrderCallsOf(method) : \E t \in OrderTargetsOf(method, c.callback) :
             AttachClick(m, method, c.callback, t[1], t[2], c.kwargs)
    \/ \E m \in Maps, c \in OrderCallsOf("keypress") :
          \E key \in OrderTargetsOf("keypress", c.callback) :
             AttachKey(m, c.callback, key, c.kwargs)
    \/ \E m \in Maps, method \in ClickMethods :
          \E ID \in SeqToSet(attached_callbacks(method, cbs[m][method])) :
             RemoveClick(m, method, ID)
    \/ \E m \in Maps :
          \E ID \in SeqToSet(attached_callbacks("keypress", cbs[m]["keypress"])) :
             RemoveKey(m, ID)
    \/ \E m \in Maps, b \in OrderClicks :
          OneClass("click") /\ HostClick(m, ClickOn(ax, m, b[1], b[2], 0, 1), Idle(Maps))
    \/ \E m \in Maps, b \in OrderClicks, ind \in PickInds :
          \E host \in PointerHosts(m, Maps) :
             \E event \in {PickOn(ax, m, ind, b[1], b[2]), PickOther(ax, m, ind, b[1], b[2])} :
                OneClass("pick") /\ HostPick(m, event, host)
    \/ \E m \in Maps, key \in PressKeys :
          \E host \in {Idle(Maps), Busy(m, Maps)} :
             OneClass("keypress") /\ HostKey(m, KeyEvent(key), host)

SpecOrder == InitOrder /\ [][NextOrder]_vars

(***************************************************************************)
(* The calls as a caller makes them, on any container                      *)
(***************************************************************************)
AttachInputs(method) ==
    {[callback |-> c.callback, kwargs |-> c.kwargs, target |-> t] :
        c \in CallsOf(method), t \in TargetsOf(method)}

\* attach(...) of the container
Attach(method, reg, inp) ==
    IF method \in ClickMethods
    THEN click_add_callback(method, reg, inp.callback, inp.target[1], inp.target[2], inp.kwargs)
    ELSE key_add_callback(method, reg, inp.callback, inp.target, inp.kwargs)

\* the bucket an attach call targets
TargetBucket(method, inp) ==
    IF method \in ClickMethods
    THEN <<IF inp.target[1] THEN double ELSE single, inp.target[2]>>
    ELSE inp.target

\* base_name and sequence of an entry key "<base_name>_<sequence>"
BaseName(key) == RSplit1(key, Us)[1]
Sequence(key) == StrToInt(RSplit1(key, Us)[2])

\* the entries of a bucket with the given base_name
EntriesOf(d, base) == SelectSeq(d, LAMBDA e : BaseName(e.k) = base)

Containers == Maps \X Methods
ClickContainers == Maps \X ClickMethods

(***************************************************************************)
(* C1: in a click or pick container, attaching the same multi-attach-safe  *)
(* handler kind twice to the same bucket succeeds both times and returns   *)
(* two distinct identities that differ only in the sequence number; both   *)
(* are in attached_callbacks afterwards.                                   *)
(***************************************************************************)
IsMulti(inp) == inp.callback.name \in multi_cb_functions

DiffersOnlyInSequence(id1, id2) ==
    LET p1 == Split(id1, Sep)
        p2 == Split(id2, Sep)
    IN  /\ Len(p1) = 3 /\ Len(p2) = 3
        /\ p1[2] = p2[2] /\ p1[3] = p2[3]
        /\ BaseName(p1[1]) = BaseName(p2[1])
        /\ Sequence(p1[1]) # Sequence(p2[1])

C1_MultiAttachTwice ==
    \A c \in ClickContainers : \A i1 \in AttachInputs(c[2]) :
        IsMulti(i1)
        => LET r1 == Attach(c[2], cbs[c[1]][c[2]], i1)
           IN  /\ r1.status = "ok"
               /\ \A i2 \in AttachInputs(c[2]) :
                     (i1.callback = i2.callback /\ i1.target = i2.target)
                     => LET r2    == Attach(c[2], r1.reg, i2)
                            after == SeqToSet(attached_callbacks(c[2], r2.reg))
                        IN  /\ r2.status = "ok"
                            /\ r1.id # r2.id
                            /\ DiffersOnlyInSequence(r1.id, r2.id)
                            /\ r1.id \in after /\ r2.id \in after

\* two mark entries have been attached to one bucket
C1_Witness ==
    /\ ret.op = "attach" /\ ret.status = "ok"
    /\ \E c \in ClickContainers : \E b \in ClickBuckets :
          Len(EntriesOf(cbs[c[1]][c[2]][b], mark)) = 2

(***************************************************************************)
(* C2: in a click or pick container, attaching a handler kind that is not  *)
(* multi-attach-safe to a bucket that already holds an entry of that       *)
(* base_name fails, the bucket still holds exactly one entry of that       *)
(* base_name afterwards, and so every bucket holds at most one entry per   *)
(* base_name that is not multi-attach-safe.                                *)
(***************************************************************************)
C2_SingleAttachOnly ==
    \A c \in ClickContainers :
        LET reg == cbs[c[1]][c[2]]
        IN  /\ \A b \in ClickBuckets : \A i \in 1..Len(reg[b]) :
                  BaseName(reg[b][i].k) \notin multi_cb_functions
                  => Len(EntriesOf(reg[b], BaseName(reg[b][i].k))) = 1
            /\ \A inp \in AttachInputs(c[2]) :
                  (/\ ~IsMulti(inp)
                   /\ Len(EntriesOf(reg[TargetBucket(c[2], inp)], inp.callback.name)) > 0)
                  => LET r == Attach(c[2], reg, inp)
                     IN  /\ r.status = "AssertionError"
                         /\ Len(EntriesOf(r.reg[TargetBucket(c[2], inp)], inp.callback.name)) = 1

\* a second attach of a callback that is not multi-attach-safe has failed
C2_Witness ==
    /\ ret.op = "attach" /\ ret.status = "AssertionError"
    /\ ret.msg = "Multiple assignments"
    /\ \E c \in ClickContainers : \E b \in ClickBuckets :
          Len(EntriesOf(cbs[c[1]][c[2]][b], load)) = 1

(***************************************************************************)
(* C3: in the keypress container every key bucket holds at most one entry  *)
(* per base_name that is not multi-attach-safe: a second attach of such a  *)
(* handler kind to the same key fails.                                     *)
(***************************************************************************)
C3_KeypressSingleAttachOnly ==
    \A m \in Maps : \A key \in Keys :
        LET d == cbs[m]["keypress"][key]
        IN  \A i \in 1..Len(d) :
               BaseName(d[i].k) \notin multi_cb_functions
               => Len(EntriesOf(d, BaseName(d[i].k))) = 1

(***************************************************************************)
(* C4: remove is idempotent in every container: remove of an identity that *)
(* was already removed, or of a well-formed identity that was never        *)
(* attached, raises no error, leaves the attached callbacks unchanged and  *)
(* calls no cleanup method.                                                *)
(***************************************************************************)
\* well-formed identities, attached or not
ProbeIDs(method) ==
    IF method \in ClickMethods
    THEN {Identity(method, n \o Us \o IntToStr(q), b) :
             n \in {mark, load}, q \in 0..1, b \in {<<single, 1>>, <<single, 2>>}}
    ELSE {Identity(method, switch_layer \o Us \o IntToStr(q), b) :
             q \in 0..1, b \in {<<"a">>, <<"c">>}}

NoOp(r, reg) == r.status = "ok" /\ r.reg = reg /\ r.cleanup = <<>> /\ ~r.hit

C4_RemoveIdempotent ==
    \A c \in Containers :
        LET reg  == cbs[c[1]][c[2]]
            enum == SeqToSet(attached_callbacks(c[2], reg))
        IN  /\ \A ID \in ProbeIDs(c[2]) \ enum : NoOp(Remove(c[2], reg, ID), reg)
            /\ \A ID \in enum :
                  LET r1 == Remove(c[2], reg, ID)
                  IN  r1.hit => NoOp(Remove(c[2], r1.reg, ID), r1.reg)

\* a remove that found nothing has returned while callbacks are attached
C4_Witness ==
    /\ ret.op = "remove" /\ ret.status = "ok" /\ ~ret.hit
    /\ TotalEntries(cbs) > 0

(***************************************************************************)
(* C5: remove(identity) of an attached identity deletes exactly the entry  *)
(* with that identity and leaves every other entry attached under its      *)
(* unchanged identity.                                                     *)
(***************************************************************************)
C5_RemoveExactlyThatEntry ==
    \A c \in Containers :
        LET reg  == cbs[c[1]][c[2]]
            enum == attached_callbacks(c[2], reg)
        IN  \A ID \in SeqToSet(enum) :
               LET r == Remove(c[2], reg, ID)
               IN  /\ r.status = "ok"
                   /\ attached_callbacks(c[2], r.reg) = SelectSeq(enum, LAMBDA x : x # ID)
                   /\ \A b \in BucketsOf(c[2]) :
                         r.reg[b] = SelectSeq(reg[b],
                                        LAMBDA e : Identity(c[2], e.k, b) # ID)

(***************************************************************************)
(* C6: the sequence number assigned by a successful attach is the smallest *)
(* non-negative integer not used by an entry of the same base_name in the  *)
(* target bucket.                                                          *)
(***************************************************************************)
UsedSequences(d, base) == {Sequence(d[i].k) : i \in {j \in 1..Len(d) : BaseName(d[j].k) = base}}

SmallestFree(S) == CHOOSE n \in 0..Cardinality(S) : n \notin S /\ \A k \in 0..(n - 1) : k \in S

C6_SmallestFreeSequence ==
    \A c \in Containers : \A inp \in AttachInputs(c[2]) :
        LET reg == cbs[c[1]][c[2]]
            r   == Attach(c[2], reg, inp)
        IN  r.status = "ok"
            => Sequence(r.key)
                 = SmallestFree(UsedSequences(reg[TargetBucket(c[2], inp)], inp.callback.name))

(***************************************************************************)
(* C6 (amended): the sequence number assigned by a successful attach is    *)
(* greater than the sequence number of every entry of the same base_name   *)
(* in the target bucket (so it is unused); it need not be the smallest     *)
(* unused one.                                                             *)
(***************************************************************************)
C6_SequenceAboveUsed ==
    \A c \in Containers : \A inp \in AttachInputs(c[2]) :
        LET reg == cbs[c[1]][c[2]]
            r   == Attach(c[2], reg, inp)
        IN  r.status = "ok"
            => /\ BaseName(r.key) = inp.callback.name
               /\ \A q \in UsedSequences(reg[TargetBucket(c[2], inp)], inp.callback.name) :
                     Sequence(r.key) > q

\* an attach has numbered a second entry of one base_name on a key
C6_Witness ==
    /\ ret.op = "attach" /\ ret.status = "ok"
    /\ \E m \in Maps : \E key \in Keys :
          UsedSequences(cbs[m]["keypress"][key], switch_layer) = {0, 1}

(***************************************************************************)
(* C7: entries are never overwritten: a successful attach adds exactly one *)
(* entry under a key that was not in the target bucket, every entry that   *)
(* was there is still there with the same handler and bound arguments, and *)
(* the identities of attached_callbacks are pairwise distinct.             *)
(***************************************************************************)
C7_NeverOverwritten ==
    \A c \in Containers :
        LET reg  == cbs[c[1]][c[2]]
            enum == attached_callbacks(c[2], reg)
        IN  /\ \A i \in 1..Len(enum) : \A j \in 1..Len(enum) : i # j => enum[i] # enum[j]
            /\ \A inp \in AttachInputs(c[2]) :
                  LET r == Attach(c[2], reg, inp)
                      b == TargetBucket(c[2], inp)
                  IN  r.status = "ok"
                      => /\ ~DictHas(reg[b], r.key)
                         /\ r.reg = [reg EXCEPT ![b] =
                                        Append(reg[b], [k |-> r.key,
                                                        v |-> Partial(inp.callback, inp.kwargs)])]

\* an attach has added an entry of another handler to a bucket
C7_Witness ==
    /\ ret.op = "attach" /\ ret.status = "ok"
    /\ \E c \in ClickContainers : \E b \in ClickBuckets :
          LET d == cbs[c[1]][c[2]][b]
          IN  Len(d) = 2 /\ d[1].v.func # d[2].v.func

(***************************************************************************)
(* C8: every identity returned by attach is a valid removal handle:        *)
(* splitting it on "__" yields exactly the entry key and the               *)
(* classification parts (arity and button, or the key), for every          *)
(* attachable handler, and remove of it deletes exactly the entry that     *)
(* attach created.                                                         *)
(***************************************************************************)
ClassifierParts(method, bucket) ==
    IF method \in ClickMethods THEN <<bucket[1], IntToStr(bucket[2])>> ELSE <<bucket>>

\* checked for the identity attach has returned for each attached entry
C8_IdentityIsRemovalHandle ==
    \A c \in Containers : \A b \in BucketsOf(c[2]) :
        LET reg == cbs[c[1]][c[2]]
        IN  \A i \in 1..Len(reg[b]) :
               LET ID == Identity(c[2], reg[b][i].k, b)
                   r  == Remove(c[2], reg, ID)
               IN  /\ Split(ID, Sep) = <<reg[b][i].k>> \o ClassifierParts(c[2], b)
                   /\ r.status = "ok" /\ r.hit
                   /\ r.reg = [reg EXCEPT ![b] = DictDel(reg[b], reg[b][i].k)]

(***************************************************************************)
(* C9: attaching a click or pick callback with a reserved keyword argument *)
(* (pos, ID or val) fails with an error and leaves the registry unchanged. *)
(***************************************************************************)
\* as every such attach fails, no entry is ever bound to a reserved keyword
C9_ReservedKwargsRejected ==
    \A c \in ClickContainers : \A b \in ClickBuckets :
        LET d == cbs[c[1]][c[2]][b]
        IN  \A i \in 1..Len(d) : d[i].v.kwargs \cap {"pos", "ID", "val"} = {}

(***************************************************************************)
(* C10: no partial registration: whenever an attach call fails (unknown    *)
(* handler-kind name or duplicate of a handler that is not                 *)
(* multi-attach-safe), in any container, attached_callbacks is the same    *)
(* after the call as before it.                                            *)
(***************************************************************************)
C10_NoPartialRegistration ==
    \A c \in Containers :
        LET reg    == cbs[c[1]][c[2]]
            before == attached_callbacks(c[2], reg)
        IN  \A inp \in AttachInputs(c[2]) :
               LET r == Attach(c[2], reg, inp)
               IN  r.status # "ok" => attached_callbacks(c[2], r.reg) = before

\* an attach of an unknown name has failed while callbacks are attached
C10_Witness ==
    /\ ret.op = "attach" /\ ret.status = "AssertionError"
    /\ ret.msg = "does not exist as a pre-defined callback"
    /\ TotalEntries(cbs) > 0

(***************************************************************************)
(* Runs of the Maps objects A, B and C: one callback per container,        *)
(* forwarding between them, and host events on each of them.  A run uses   *)
(* the containers of one event class (containers of different classes      *)
(* share no state).                                                        *)
(***************************************************************************)
FwdCallOf(method) ==
    IF method \in ClickMethods THEN Call(Callback(TRUE, load), {})
    ELSE Call(Callback(TRUE, switch_layer), {})

\* the forward_events and share_events calls: the Maps object and its args
ForwardCalls == {<<"A", <<"B">>>>, <<"B", <<"C">>>>}
ShareCalls == {<<"A", <<"B">>>>}

Parents(V) == {m \in V : Parent(m) = m}

\* the Maps objects on the figure of the parent p
OnFigure(p, V) == {m \in V : Parent(m) = p}

InitFwd ==
    /\ Constructed(Views)
    /\ ax \in Layouts(Views)
    /\ seed = 0

NextFwd ==
    \/ \E m \in Views, method \in ClickMethods :
          /\ OneClass(method)
          /\ AttachClick(m, method, FwdCallOf(method).callback, FALSE, 1, {})
    \/ \E m \in Views :
          /\ OneClass("keypress")
          /\ AttachKey(m, FwdCallOf("keypress").callback, <<"a">>, {})
    \/ \E method \in Methods, call \in ForwardCalls :
          OneClass(method) /\ ForwardEvents(call[1], method, call[2])
    \/ \E method \in Methods, call \in ShareCalls :
          OneClass(method) /\ ShareEvents(call[1], method, call[2])
    \/ \E p \in Parents(Views) : \E m \in OnFigure(p, Views) :
          OneClass("click") /\ HostClick(p, ClickOn(ax, m, FALSE, 1, 0, 1), Idle(Views))
    \/ \E p \in Parents(Views) : \E m \in OnFigure(p, Views) :
          OneClass("pick") /\ HostPick(p, PickOn(ax, m, 0, FALSE, 1), Idle(Views))
    \/ \E p \in Parents(Views) :
          OneClass("keypress") /\ HostKey(p, KeyEvent(<<"a">>), Idle(Views))

SpecFwd == InitFwd /\ [][NextFwd]_vars

(***************************************************************************)
(* Dispatch: what a trace calls, and the Ordering Policy                   *)
(***************************************************************************)
\* the entry keys a trace calls in the container of m, in the order of the calls
CalledKeys(trace, m, method) ==
    LET steps == SelectSeq(trace, LAMBDA st : st.t = "cb" /\ st.m = m /\ st.method = method)
    IN  [i \in 1..Len(steps) |-> steps[i].key]

InCatalog(method, base) == base \in SeqToSet(CbList(method))

\* k1 may run before k2
MayPrecede(method, k1, k2) ==
    LET b1 == BaseName(k1)
        b2 == BaseName(k2)
    IN  /\ (InCatalog(method, b1) /\ InCatalog(method, b2) /\ b1 # b2)
              => IndexOf(CbList(method), b1) < IndexOf(CbList(method), b2)
        /\ InCatalog(method, b2) => InCatalog(method, b1)
        /\ b1 = b2 => Sequence(k1) < Sequence(k2)

\* ks are the keys of the dict d, each once, in Ordering-Policy order
InPolicyOrder(method, d, ks) ==
    /\ Len(ks) = Len(d)
    /\ SeqToSet(ks) = {d[i].k : i \in 1..Len(d)}
    /\ \A i \in 1..Len(ks) : \A j \in (i + 1)..Len(ks) : MayPrecede(method, ks[i], ks[j])

\* the events of every bucket on the Maps object m
ClickEventsOn(m) ==
    {ClickOn(ax, m, ClickBucketOrder[i][1] = double, ClickBucketOrder[i][2], 0, 1) :
        i \in 1..Len(ClickBucketOrder)}

PickEventsOn(m) ==
    {PickOn(ax, m, 0, ClickBucketOrder[i][1] = double, ClickBucketOrder[i][2]) :
        i \in 1..Len(ClickBucketOrder)}

\* the trace of a host event of the class on m, with an idle host
CycleOf(method, m, event) ==
    IF method = "click"
    THEN clickcb(cbs, fwd, ax, seed, Parent(m), event, Idle(DOMAIN cbs))
    ELSE IF method = "pick"
    THEN pickcb(cbs, fwd, ax, seed, Parent(m), event, Idle(DOMAIN cbs))
    ELSE onpress(cbs, Parent(m), event)

EventsOn(method, m) ==
    IF method = "click" THEN ClickEventsOn(m)
    ELSE IF method = "pick" THEN PickEventsOn(m)
    ELSE {KeyEvent(k) : k \in Keys}

\* the dict of the bucket an event selects
BucketOf(method, m, event) ==
    IF method = "keypress"
    THEN (IF event.key \in Keys THEN cbs[m][method][event.key] ELSE <<>>)
    ELSE IF EventBucket(event) \in ClickBuckets THEN cbs[m][method][EventBucket(event)]
    ELSE <<>>

(***************************************************************************)
(* C11: click and pick dispatch call the entries of the matching bucket in *)
(* Ordering-Policy order: catalog names in catalog order whatever the      *)
(* order of the attach calls, other names after all catalog names, entries *)
(* of one base_name in ascending sequence.                                 *)
(***************************************************************************)
C11_ClickPickPolicyOrder ==
    \A m \in DOMAIN cbs : \A method \in ClickMethods : \A event \in EventsOn(method, m) :
        InPolicyOrder(method, BucketOf(method, m, event),
                      CalledKeys(CycleOf(method, m, event), m, method))

\* a click has run load after mark although load was attached first
C11_Witness ==
    /\ cycle.handler = "clickcb"
    /\ \E m \in DOMAIN cbs :
          LET d == cbs[m]["click"][EventBucket(cycle.event)]
          IN  /\ Len(d) = 2
              /\ BaseName(d[1].k) = load /\ BaseName(d[2].k) = mark
              /\ CalledKeys(cycle.trace, m, "click") = <<d[2].k, d[1].k>>

(***************************************************************************)
(* C12: keypress dispatch calls the entries attached to the pressed key in *)
(* Ordering-Policy order (catalog order, other names last, ascending       *)
(* sequence within a base_name), whatever the order of the attach calls.   *)
(***************************************************************************)
C12_KeypressPolicyOrder ==
    cycle.handler = "_onpress"
    => InPolicyOrder("keypress", BucketOf("keypress", cycle.on, cycle.event),
                     CalledKeys(cycle.trace, cycle.on, "keypress"))

(***************************************************************************)
(* Forwarding: the steps of a trace that are replays into a peer           *)
(***************************************************************************)
\* the Maps objects a pointer event is dispatched to directly
DirectViews(event) == {m \in DOMAIN cbs : ax[m] = event.inaxes}

\* the "cb" steps of a trace
Calls(trace) == SelectSeq(trace, LAMBDA st : st.t = "cb")

\* the position of (x, y) of src's projection in peer's projection
Reprojected(src, peer, x, y) ==
    <<Project(crs_plot(peer), Unproject(crs_plot(src), x)),
      Project(crs_plot(peer), Unproject(crs_plot(src), y))>>

\* positions of the pointer
Positions == Coords \X Coords

(***************************************************************************)
(* C14: when a click on A is forwarded to a peer B, the position in B's    *)
(* payload is A's event position reprojected from A's projection into B's  *)
(* projection, for every pair of projections.                              *)
(***************************************************************************)
\* checked on the calls of the Maps objects that the click reaches by
\* forwarding only
C14_ForwardedPositionReprojected ==
    cycle.handler = "clickcb"
    => \A i \in 1..Len(Calls(cycle.trace)) :
          LET st == Calls(cycle.trace)[i]
          IN  st.m \notin DirectViews(cycle.event)
              => \E src \in DirectViews(cycle.event) :
                    /\ st.m \in SeqToSet(Peers(fwd, src, "click"))
                    /\ st.arg.pos = Reprojected(src, st.m, cycle.event.xdata,
                                                cycle.event.ydata)

(***************************************************************************)
(* C15: when a click on A is forwarded to a peer B and A and B use the     *)
(* same projection, B's entries are called with a payload whose position   *)
(* equals the position of A's payload exactly.                             *)
(***************************************************************************)
C15_SameProjectionSamePosition ==
    \A m \in DOMAIN cbs : \A pos \in Positions :
        LET event  == ClickOn(ax, m, FALSE, 1, pos[1], pos[2])
            replay == Calls(click_fwd_cb(cbs, fwd, ax, seed, m, event))
        IN  \A i \in 1..Len(replay) :
               crs_plot(replay[i].m) = crs_plot(m)
               => /\ replay[i].arg.pos = get_clickdict(event).pos
                  /\ replay[i].arg = get_clickdict(event)

\* a click on A has been forwarded to B, which has the projection of A and
\* axes of its own, and the entry of B has been called
C15_Witness ==
    /\ cycle.handler = "clickcb" /\ cycle.on = "A"
    /\ cycle.event.inaxes = ax["A"] /\ ax["B"] # ax["A"]
    /\ crs_plot("B") = crs_plot("A")
    /\ "B" \in SeqToSet(Peers(fwd, "A", "click"))
    /\ \E i \in 1..Len(cycle.trace) :
          /\ cycle.trace[i].t = "cb" /\ cycle.trace[i].m = "B"
          /\ cycle.trace[i].arg.pos = <<cycle.event.xdata, cycle.event.ydata>>

(***************************************************************************)
(* C16: after click or pick events are shared between A and B, every       *)
(* unsuppressed host event on either of them calls the matching entries of *)
(* A and the matching entries of B exactly once each, also when A and B    *)
(* are parent and child dispatched by the same host handler.               *)
(***************************************************************************)
\* the class of the handler of a cycle
MethodOf(handler) ==
    IF handler \in {"clickcb", "movecb"} THEN "click"
    ELSE IF handler = "pickcb" THEN "pick" ELSE "keypress"

\* the Maps objects a host event is triggered on
TriggeredOn(c) ==
    IF c.handler \in {"clickcb", "movecb"} THEN DirectViews(c.event)
    ELSE IF c.handler = "pickcb" THEN {m \in DOMAIN cbs : Coll(m) = c.event.artist}
    ELSE {c.on}

\* how often a trace calls the entry key of m's container
TimesCalled(trace, m, method, key) ==
    Cardinality({i \in 1..Len(trace) :
                    /\ trace[i].t = "cb" /\ trace[i].m = m
                    /\ trace[i].method = method /\ trace[i].key = key})

\* the trace calls every entry of the bucket of m that the event selects n times
CallsBucket(c, m, n) ==
    LET d == BucketOf(MethodOf(c.handler), m, c.event)
    IN  \A i \in 1..Len(d) : TimesCalled(c.trace, m, MethodOf(c.handler), d[i].k) = n

Shared(method, x, y) ==
    /\ x # y
    /\ y \in SeqToSet(Peers(fwd, x, method)) /\ x \in SeqToSet(Peers(fwd, y, method))

C16_SharedExactlyOnce ==
    cycle.handler \in {"clickcb", "pickcb"}
    => \A x \in TriggeredOn(cycle) : \A y \in DOMAIN cbs :
          Shared(MethodOf(cycle.handler), x, y)
          => CallsBucket(cycle, x, 1) /\ CallsBucket(cycle, y, 1)

(***************************************************************************)
(* C17: keypress events are forwarded: after keypress forwarding from A to *)
(* B is established (forward or share), a key press dispatched on A calls  *)
(* B's keypress entries attached to that key with payload {key}, once per  *)
(* press.                                                                  *)
(***************************************************************************)
C17_KeypressForwarded ==
    cycle.handler = "_onpress"
    => \A y \in SeqToSet(Peers(fwd, cycle.on, "keypress")) :
          /\ CallsBucket(cycle, y, 1)
          /\ \A i \in 1..Len(Calls(cycle.trace)) :
                Calls(cycle.trace)[i].arg = [key |-> cycle.event.key]

(***************************************************************************)
(* C18: forward is one-directional: after only forward(B) has been called  *)
(* on A's container of an event class (and nothing on B's), an event       *)
(* triggered on B never calls an entry of A, while an event triggered on A *)
(* calls B's matching entries.                                             *)
(***************************************************************************)
\* the trace calls every entry of the bucket of m that the event selects
EveryEntryCalled(c, m) ==
    LET d == BucketOf(MethodOf(c.handler), m, c.event)
    IN  \A i \in 1..Len(d) : TimesCalled(c.trace, m, MethodOf(c.handler), d[i].k) >= 1

NoEntryCalled(c, m) == \A i \in 1..Len(c.trace) : ~(c.trace[i].t = "cb" /\ c.trace[i].m = m)

\* only x.forward_events(y) has been called in the class
OnlyForward(method, x, y) ==
    /\ x # y
    /\ Peers(fwd, x, method) = <<y>> /\ Peers(fwd, y, method) = <<>>

C18_ForwardOneDirectional ==
    cycle.handler # ""
    => \A x \in DOMAIN cbs : \A y \in DOMAIN cbs :
          OnlyForward(MethodOf(cycle.handler), x, y)
          => /\ (x \in TriggeredOn(cycle) /\ y \notin TriggeredOn(cycle))
                   => EveryEntryCalled(cycle, y)
             /\ (y \in TriggeredOn(cycle) /\ x \notin TriggeredOn(cycle))
                   => NoEntryCalled(cycle, x)

(***************************************************************************)
(* C19: share_events(P1..Pn) on the container of A puts, for every ordered *)
(* pair (x, y) of distinct Maps objects of {A, P1, .., Pn}, y into the     *)
(* forwarding dict of x for that event class; the forwarding entries that  *)
(* existed before the call are kept.                                       *)
(***************************************************************************)
\* the args of the share_events calls: one or two Maps objects
ShareArgs == {<<p>> : p \in Views} \cup {<<p, q>> : p \in Views, q \in Views}

C19_ShareAllPairs ==
    \A method \in Methods : \A m \in DOMAIN cbs : \A args \in ShareArgs :
        LET after == share_events(fwd, m, method, args)
            group == {m} \cup SeqToSet(args)
        IN  /\ \A x \in group : \A y \in group \ {x} :
                  y \in SeqToSet(Peers(after, x, method))
            /\ \A x \in DOMAIN cbs : \A o \in Methods :
                  SeqToSet(Peers(fwd, x, o)) \subseteq SeqToSet(Peers(after, x, o))

\* share_events(B) on A has returned, and B still forwards to C
C19_Witness ==
    /\ ret.op = "share_events"
    /\ \E method \in Methods :
          /\ Peers(fwd, "A", method) = <<"B">>
          /\ Peers(fwd, "B", method) = <<"C", "A">>

(***************************************************************************)
(* C20: forwarding is transitive through recursive dispatch: if A forwards *)
(* an event class to B and B forwards it to C, an event triggered on A     *)
(* causes B's full dispatch including B's own forwarding, so C's matching  *)
(* entries are called, before A's dispatch cycle returns.                  *)
(***************************************************************************)
C20_ForwardingTransitive ==
    cycle.handler \in {"clickcb", "pickcb"}
    => \A x \in TriggeredOn(cycle) :
          \A y \in SeqToSet(Peers(fwd, x, MethodOf(cycle.handler))) :
             \A z \in SeqToSet(Peers(fwd, y, MethodOf(cycle.handler))) :
                EveryEntryCalled(cycle, y) /\ EveryEntryCalled(cycle, z)

(***************************************************************************)
(* C20 (amended): forwarding is one hop deep: the replay into a peer B     *)
(* runs B's matching entries but not B's own forwarding.  An entry of C is *)
(* called only if C is dispatched by the host handler itself or is in the  *)
(* forwarding dict of a Maps object the host handler dispatches; for a     *)
(* click every peer of a dispatched Maps object has its matching entries   *)
(* called, and all calls are made before the handler requests its update.  *)
(***************************************************************************)
\* the Maps objects whose _fwd_cb the host handler runs
Forwarders(c) ==
    IF c.handler \in {"clickcb", "movecb"} THEN DirectViews(c.event)
    ELSE {m \in OnFigure(c.on, DOMAIN cbs) : ax[m] = c.event.mouseevent.inaxes}

\* the Maps objects one hop away from the host handler
OneHop(c) ==
    TriggeredOn(c) \cup
    UNION {SeqToSet(Peers(fwd, x, MethodOf(c.handler))) : x \in Forwarders(c)}

C20_ForwardingOneHop ==
    cycle.handler \in {"clickcb", "pickcb"}
    => /\ \A z \in DOMAIN cbs : z \notin OneHop(cycle) => NoEntryCalled(cycle, z)
       /\ cycle.handler = "clickcb"
            => /\ \A x \in Forwarders(cycle) :
                     \A y \in SeqToSet(Peers(fwd, x, "click")) : EveryEntryCalled(cycle, y)
               /\ cycle.trace[Len(cycle.trace)] = Update(cycle.on, "click")

\* a click on A, which forwards to B, which forwards to C: the entry of B
\* has been called and no entry of C, which has one
C20_Witness ==
    /\ cycle.handler = "clickcb" /\ TriggeredOn(cycle) = {"A"}
    /\ Peers(fwd, "A", "click") = <<"B">> /\ Peers(fwd, "B", "click") = <<"C">>
    /\ BucketOf("click", "B", cycle.event) # <<>>
    /\ BucketOf("click", "C", cycle.event) # <<>>
    /\ EveryEntryCalled(cycle, "B") /\ NoEntryCalled(cycle, "C")

(***************************************************************************)
(* C21: teardown removes everything: after the close event of the host     *)
(* window has been handled, attached_callbacks is empty for every event    *)
(* class of the container (click, pick and keypress), and every removed    *)
(* entry went through the removal path of remove(identity), its cleanup    *)
(* hook included.                                                          *)
(***************************************************************************)
\* the cleanup methods remove calls for the entries of a container, in the
\* order of attached_callbacks
HooksOf(method, reg) ==
    LET ids == attached_callbacks(method, reg)
    IN  ConcatAll([i \in 1..Len(ids) |-> CleanupCalls(method, <<>>, Split(ids[i], Sep)[1])])

\* checked for the close event in every state, and for the close event
\* handled last
C21_TeardownRemovesEverything ==
    /\ \A m \in DOMAIN cbs :
          LET r == on_close(cbs[m])
          IN  /\ r.status = "ok"
              /\ \A method \in Methods : attached_callbacks(method, r.cb[method]) = <<>>
              /\ \A h \in UNION {SeqToSet(HooksOf(method, cbs[m][method])) : method \in Methods} :
                    h \in SeqToSet(r.cleanup)
    /\ ret.op = "_on_close"
          => \A m \in DOMAIN cbs : \A method \in Methods :
                attached_callbacks(method, cbs[m][method]) = <<>>

(***************************************************************************)
(* Runs of the Maps objects A, B and C with pointer events of every kind:  *)
(* button press, motion and pick, while the host is idle, while the        *)
(* axis-drag modifier is pressed, while the toolbar is in a mode, and (for *)
(* a pick) while the peers have no data near the pointer                   *)
(***************************************************************************)
\* event.button of a motion_notify_event: None while no button is held
MoveButtons == {None, 1}

NextCycle ==
    \/ \E m \in Views, method \in ClickMethods :
          /\ OneClass(method)
          /\ AttachClick(m, method, FwdCallOf(method).callback, FALSE, 1, {})
    \/ \E method \in ClickMethods, call \in ForwardCalls :
          OneClass(method) /\ ForwardEvents(call[1], method, call[2])
    \/ \E method \in ClickMethods, call \in ShareCalls :
          OneClass(method) /\ ShareEvents(call[1], method, call[2])
    \/ \E p \in Parents(Views) : \E m \in OnFigure(p, Views) :
          \E host \in PointerHosts(p, Views) :
             OneClass("click") /\ HostClick(p, ClickOn(ax, m, FALSE, 1, 0, 1), host)
    \/ \E p \in Parents(Views) : \E m \in OnFigure(p, Views) :
          \E host \in PointerHosts(p, Views), button \in MoveButtons :
             OneClass("click") /\ HostMove(p, ClickOn(ax, m, FALSE, button, 0, 1), host)
    \/ \E p \in Parents(Views) : \E m \in OnFigure(p, Views) :
          \E host \in PointerHosts(p, Views)
                      \cup {NoMatch(Views), PeerToolbarActive(p, Views)} :
             OneClass("pick") /\ HostPick(p, PickOn(ax, m, 0, FALSE, 1), host)

SpecCycle == InitFwd /\ [][NextCycle]_vars

(***************************************************************************)
(* C22: no entry observes a suppressed cycle: when a pointer event arrives *)
(* while the axis-drag modifier is active, or while the toolbar is in a    *)
(* non-idle mode, or (motion trigger) while no button is held, no entry of *)
(* the instance, of its child views or of a forwarding peer is called, no  *)
(* cleanup is scheduled, no redraw is requested and no error is raised.    *)
(***************************************************************************)
PointerHandlers == {"clickcb", "movecb", "pickcb"}

\* the guards of the handler of the cycle c suppress it
Suppressed(c) ==
    /\ c.handler \in PointerHandlers
    /\ \/ c.on \in c.host.modifier
       \/ Figure(c.on) \in c.host.toolbar
       \/ c.handler = "movecb" /\ c.event.button = None

C22_SuppressedCycleSilent ==
    Suppressed(cycle) => cycle.trace = <<>> /\ ret.status = "ok"

\* a press on A was suppressed by the toolbar while A and its peer B had
\* entries for the event
C22_Witness ==
    /\ cycle.handler = "clickcb" /\ cycle.on = "A"
    /\ Figure("A") \in cycle.host.toolbar /\ cycle.host.modifier = {}
    /\ cycle.event.inaxes = ax["A"]
    /\ "B" \in SeqToSet(Peers(fwd, "A", "click"))
    /\ BucketOf("click", "A", cycle.event) # <<>>
    /\ BucketOf("click", "B", cycle.event) # <<>>
    /\ cycle.trace = <<>>

(***************************************************************************)
(* C23: when a pick event is forwarded to a peer for which the             *)
(* nearest-point resolution yields no match, the peer's matching entries   *)
(* are still called, with a payload whose ID, val and ind are None, and no *)
(* error is raised.                                                        *)
(***************************************************************************)
\* the steps of the trace that call an entry of y from the _fwd_cb of x
Replays(trace, x, y) ==
    SelectSeq(trace, LAMBDA st : st.t = "cb" /\ st.via = x /\ st.m = y)

\* the peers y of a Maps object x that forwards the pick of the cycle,
\* with no match for y
PeersWithoutMatch(c) ==
    {xy \in Forwarders(c) \X DOMAIN cbs :
        /\ xy[2] \in SeqToSet(Peers(fwd, xy[1], "pick"))
        /\ c.host.pick_pixel[xy[2]] = None}

C23_NoMatchStillCalled ==
    (cycle.handler = "pickcb" /\ ~Suppressed(cycle))
    => \A xy \in PeersWithoutMatch(cycle) :
          LET d  == BucketOf("pick", xy[2], cycle.event)
              rs == Replays(cycle.trace, xy[1], xy[2])
          IN  /\ \A i \in 1..Len(d) : \E j \in 1..Len(rs) : rs[j].key = d[i].k
              /\ \A j \in 1..Len(rs) :
                    rs[j].arg.ID = None /\ rs[j].arg.val = None /\ rs[j].arg.ind = None
              /\ ret.status = "ok"

(***************************************************************************)
(* C23 (amended): when a pick event is forwarded to a peer for which the   *)
(* nearest-point resolution yields no match, no entry of the peer is       *)
(* called for that replay (nothing is selected on the peer), and no error  *)
(* is raised.                                                              *)
(***************************************************************************)
C23_NoMatchNotCalled ==
    (cycle.handler = "pickcb" /\ ~Suppressed(cycle))
    => \A xy \in PeersWithoutMatch(cycle) :
          /\ Replays(cycle.trace, xy[1], xy[2]) = <<>>
          /\ ret.status = "ok"

\* a pick on A was forwarded to B, for which nothing matched: the entry of
\* A has been called and the entry of B has not
C23_Witness ==
    /\ cycle.handler = "pickcb" /\ ~Suppressed(cycle)
    /\ cycle.event.artist = Coll("A") /\ ax["B"] # ax["A"]
    /\ <<"A", "B">> \in PeersWithoutMatch(cycle)
    /\ BucketOf("pick", "A", cycle.event) # <<>>
    /\ BucketOf("pick", "B", cycle.event) # <<>>
    /\ EveryEntryCalled(cycle, "A") /\ NoEntryCalled(cycle, "B")

(***************************************************************************)
(* C24: remove(identity) of an attached entry whose handler kind has a     *)
(* cleanup hook calls that hook exactly once per removed entry, after the  *)
(* entry has been deleted from the registry and before remove returns (so  *)
(* before attach can assign the identity again); the hook is not called    *)
(* when the identity is absent.                                            *)
(***************************************************************************)
\* the handler kind of the entry key has a cleanup hook
HasHook(method, key) == HasAttr(method, CleanupName(BaseName(key)))

C24_CleanupHookOnce ==
    \A c \in Containers :
        LET reg  == cbs[c[1]][c[2]]
            enum == SeqToSet(attached_callbacks(c[2], reg))
        IN  /\ \A b \in BucketsOf(c[2]) : \A i \in 1..Len(reg[b]) :
                  LET key == reg[b][i].k
                      r   == Remove(c[2], reg, Identity(c[2], key, b))
                  IN  HasHook(c[2], key)
                      => /\ r.status = "ok" /\ r.hit
                         /\ ~DictHas(r.reg[b], key)
                         /\ r.cleanup = <<[hook     |-> CleanupName(BaseName(key)),
                                           attached |-> FALSE]>>
            /\ \A ID \in (ProbeIDs(c[2]) \cup OtherIDs(c[2])) \ enum :
                  Remove(c[2], reg, ID).cleanup = <<>>

\* remove of one of two attached mark entries has called _mark_cleanup once,
\* with the entry deleted
C24_Witness ==
    /\ ret.op = "remove" /\ ret.status = "ok" /\ ret.hit
    /\ ret.cleanup = <<[hook |-> CleanupName(mark), attached |-> FALSE]>>
    /\ \E c \in ClickContainers : \E b \in ClickBuckets :
          Len(EntriesOf(cbs[c[1]][c[2]][b], mark)) = 1

(***************************************************************************)
(* C25: for both spatial event classes (click and pick), every replay of   *)
(* an event into a forwarding peer schedules the clearing of that peer's   *)
(* own ephemeral artifacts, independently of the scheduling done for the   *)
(* triggering instance.                                                    *)
(***************************************************************************)
\* the clear actions of y that the trace appends from the _fwd_cb of x
ScheduledBy(trace, x, y) ==
    SelectSeq(trace, LAMBDA st : st.t = "after_update" /\ st.via = x /\ st.m = y)

C25_PeerCleanupScheduled ==
    (cycle.handler \in PointerHandlers /\ ~Suppressed(cycle))
    => \A x \in Forwarders(cycle) :
          \A y \in SeqToSet(Peers(fwd, x, MethodOf(cycle.handler))) :
             /\ Len(ScheduledBy(cycle.trace, x, y)) = 1
             /\ ScheduledBy(cycle.trace, x, y)[1].arg.bm = y

\* the same for the click class alone
C25_ClickPeerCleanupScheduled ==
    MethodOf(cycle.handler) = "click" => C25_PeerCleanupScheduled

Resolvable(method, inp) ==
    /\ inp.callback.str => HasAttr(method, inp.callback.name)
    /\ KwargsAllowed(inp.kwargs)

C27_DuplicateOnlyBySameName ==
    \A c \in ClickContainers : \A inp \in AttachInputs(c[2]) :
        (Resolvable(c[2], inp) /\ ~IsMulti(inp))
        => LET reg  == cbs[c[1]][c[2]]
               same == UsedSequences(reg[TargetBucket(c[2], inp)], inp.callback.name)
               r    == Attach(c[2], reg, inp)
           IN  /\ r.status # "ok" => same # {}
               /\ r.status = "ok"
                     => Sequence(r.key) = (IF same = {} THEN 0 ELSE SetMax(same) + 1)

(***************************************************************************)
(* C28: an unsuppressed click dispatch on an instance calls exactly the    *)
(* entries currently attached to the bucket selected by the event's        *)
(* click-arity (single/double) and button, each with the payload pos =     *)
(* event position, ID = None, val = None, ind = None; entries of every     *)
(* other bucket and entries removed before the event are not called.       *)
(***************************************************************************)
\* the calls the handler makes itself (replays into peers apart) are the
\* entries that the selected bucket holds when the event arrives, each once
C28_ClickExactBucket ==
    (cycle.handler = "clickcb" /\ ~Suppressed(cycle))
    => \A m \in DOMAIN cbs :
          LET d     == BucketOf("click", m, cycle.event)
              calls == SelectSeq(Calls(cycle.trace), LAMBDA st : st.m = m /\ st.via = Direct)
          IN  IF m \in TriggeredOn(cycle)
              THEN /\ Len(calls) = Len(d)
                   /\ \A i \in 1..Len(d) :
                         Cardinality({j \in 1..Len(calls) : calls[j].key = d[i].k}) = 1
                   /\ \A j \in 1..Len(calls) :
                         /\ calls[j].method = "click"
                         /\ calls[j].arg = ClickDict(<<cycle.event.xdata, cycle.event.ydata>>,
                                                     None, None, None)
              ELSE calls = <<>>

\* a double click with button 3 has called the entry of (double, 3) and not
\* the entry of (single, 1)
C28_Witness ==
    /\ cycle.handler = "clickcb" /\ ~Suppressed(cycle)
    /\ cycle.event.dblclick /\ cycle.event.button = 3
    /\ Len(cbs[cycle.on]["click"][<<single, 1>>]) = 1
    /\ Len(cbs[cycle.on]["click"][<<double, 3>>]) = 1
    /\ Len(Calls(cycle.trace)) = 1
    /\ Calls(cycle.trace)[1].key = cbs[cycle.on]["click"][<<double, 3>>][1].k
    /\ cbs[cycle.on]["click"][<<single, 1>>][1].k # cbs[cycle.on]["click"][<<double, 3>>][1].k

(***************************************************************************)
(* C29: within one dispatch cycle with forwarding, all of the triggering   *)
(* instance's own matching entries have finished before the first entry of *)
(* any forwarding peer is called.                                          *)
(***************************************************************************)
\* the positions of the trace where the handler itself calls an entry of x
OwnCalls(trace, x) ==
    {i \in 1..Len(trace) : trace[i].t = "cb" /\ trace[i].m = x /\ trace[i].via = Direct}

\* the positions of the trace where the _fwd_cb of x calls an entry of a peer
PeerCalls(trace, x) == {j \in 1..Len(trace) : trace[j].t = "cb" /\ trace[j].via = x}

\* for every Maps object x the handler dispatches: every matching entry of
\* x has been called before the first call that x forwards
C29_OwnEntriesBeforePeers ==
    (cycle.handler \in PointerHandlers /\ ~Suppressed(cycle))
    => \A x \in DOMAIN cbs :
          /\ \A i \in OwnCalls(cycle.trace, x) : \A j \in PeerCalls(cycle.trace, x) : i < j
          /\ (x \in TriggeredOn(cycle) /\ PeerCalls(cycle.trace, x) # {})
                => LET d == BucketOf(MethodOf(cycle.handler), x, cycle.event)
                   IN  \A n \in 1..Len(d) :
                          \E i \in OwnCalls(cycle.trace, x) : cycle.trace[i].key = d[n].k

\* a click on A, which forwards to B: the entry of A has been called, then
\* the entry of B
C29_Witness ==
    /\ cycle.handler = "clickcb" /\ ~Suppressed(cycle)
    /\ TriggeredOn(cycle) = {"A"}
    /\ OwnCalls(cycle.trace, "A") = {1}
    /\ PeerCalls(cycle.trace, "A") = {2} /\ cycle.trace[2].m = "B"

\* (a stronger reading: no entry of any peer is called before the last own
\* entry of any Maps object the handler dispatches)
C29_AllOwnBeforeAnyPeer ==
    (cycle.handler \in PointerHandlers /\ ~Suppressed(cycle))
    => \A x \in DOMAIN cbs : \A y \in DOMAIN cbs :
          \A i \in OwnCalls(cycle.trace, x) : \A j \in PeerCalls(cycle.trace, y) : i < j

(***************************************************************************)
(* C30: within one dispatch cycle, the clearing of the triggering          *)
(* instance's ephemeral artifacts is scheduled after its entries have run  *)
(* and before the event is replayed into any forwarding peer.              *)
(***************************************************************************)
\* the positions where the handler appends the _clear_temporary_artists of x
OwnClearing(trace, x) ==
    {k \in 1..Len(trace) :
        trace[k].t = "after_update" /\ trace[k].m = x /\ trace[k].via = Direct}

\* the positions of the steps made by the _fwd_cb of x
Replayed(trace, x) == {j \in 1..Len(trace) : trace[j].via = x}

\* the positions where the handler requests the update
Redraws(trace) ==
    {u \in 1..Len(trace) : trace[u].t = "update" /\ trace[u].via = Direct}

\* as claimed: the clearing of x is scheduled after the entries of x and
\* before anything x forwards
C30_ClearingBeforeReplay ==
    (cycle.handler \in PointerHandlers /\ ~Suppressed(cycle))
    => \A x \in DOMAIN cbs : \A k \in OwnClearing(cycle.trace, x) :
          /\ \A i \in OwnCalls(cycle.trace, x) : i < k
          /\ \A j \in Replayed(cycle.trace, x) : k < j

\* as coded: the clearing of x is scheduled once, after the entries of x
\* and after everything x forwards; press and motion request the update
\* after that
C30_ClearingAfterReplay ==
    (cycle.handler \in PointerHandlers /\ ~Suppressed(cycle))
    => /\ \A x \in TriggeredOn(cycle) : Cardinality(OwnClearing(cycle.trace, x)) = 1
       /\ \A x \in DOMAIN cbs : \A k \in OwnClearing(cycle.trace, x) :
             /\ \A i \in OwnCalls(cycle.trace, x) : i < k
             /\ \A j \in Replayed(cycle.trace, x) : j < k
             /\ cycle.handler \in {"clickcb", "movecb"}
                   => /\ Redraws(cycle.trace) = {Len(cycle.trace)}
                      /\ k < Len(cycle.trace)

\* a click on A, which forwards to B: the entry of A, the entry of B and the
\* clearing of B, then the clearing of A, then the update
C30_Witness ==
    /\ cycle.handler = "clickcb" /\ ~Suppressed(cycle)
    /\ TriggeredOn(cycle) = {"A"}
    /\ OwnCalls(cycle.trace, "A") = {1}
    /\ Replayed(cycle.trace, "A") = {2, 3} /\ cycle.trace[2].m = "B"
    /\ OwnClearing(cycle.trace, "A") = {4}
    /\ Redraws(cycle.trace) = {5}

(***************************************************************************)
(* C31: a pick dispatch on an instance calls no entry of that instance     *)
(* when the toolbar of the host is in a mode other than idle or when the   *)
(* picked artist is not the current data collection of the instance;       *)
(* otherwise it calls the entries of the bucket selected by the arity and  *)
(* the button of the event, with the payload resolved at the picked index. *)
(***************************************************************************)
\* the calls pickcb makes of the entries of m through m._onpick(event)
PickCallsOn(c, m) == SelectSeq(Calls(c.trace), LAMBDA st : st.m = m /\ st.via = Direct)

\* (pickcb reaches _onpick only if the modifier of the parent is not pressed)
C31_PickGuards ==
    (cycle.handler = "pickcb" /\ cycle.on \notin cycle.host.modifier)
    => /\ \A st \in SeqToSet(Calls(cycle.trace)) : Figure(st.m) \notin cycle.host.toolbar
       /\ \A m \in OnFigure(cycle.on, DOMAIN cbs) :
             LET d     == BucketOf("pick", m, cycle.event)
                 calls == PickCallsOn(cycle, m)
             IN  IF Figure(m) \in cycle.host.toolbar \/ cycle.event.artist # Coll(m)
                 THEN calls = <<>>
                 ELSE /\ Len(calls) = Len(d)
                      /\ \A i \in 1..Len(d) :
                            Cardinality({j \in 1..Len(calls) : calls[j].key = d[i].k}) = 1
                      /\ \A j \in 1..Len(calls) :
                            /\ calls[j].method = "pick"
                            /\ calls[j].arg = Props(m, cycle.event.ind)

\* a double click with button 3 picks index 1 of the collection of A: the
\* entry of (double, 3) is called with the properties of index 1
C31_Witness ==
    /\ cycle.handler = "pickcb" /\ cycle.host = Idle(DOMAIN cbs)
    /\ cycle.event.artist = Coll("A") /\ cycle.event.ind = 1
    /\ cycle.event.dblclick /\ cycle.event.button = 3
    /\ cbs["A"]["pick"][<<single, 1>>] # <<>>
    /\ Len(PickCallsOn(cycle, "A")) = 1
    /\ PickCallsOn(cycle, "A")[1].arg = ClickDict(<<1, 2>>, 11, 21, 1)

\* the toolbar of the figure of a peer is active: the pick on B is not
\* replayed into the entry of C, which B forwards to
C31_WitnessPeer ==
    /\ cycle.handler = "pickcb" /\ cycle.on = "A"
    /\ cycle.host = PeerToolbarActive("A", DOMAIN cbs)
    /\ \E i \in 1..Len(fwd["B"]["pick"]) : fwd["B"]["pick"][i].v = "C"
    /\ cbs["C"]["pick"][<<single, 1>>] # <<>>
    /\ cycle.event.artist = Coll("B")
    /\ PickCallsOn(cycle, "B") # <<>>

\* the guards act: an entry is attached in the selected bucket, and the
\* toolbar is active or another artist is picked
C31_WitnessGuarded ==
    /\ cycle.handler = "pickcb" /\ cycle.on \notin cycle.host.modifier
    /\ BucketOf("pick", "A", cycle.event) # <<>>
    /\ cycle.event.artist = OtherArtist
    /\ cycle.trace = <<AfterUpdate("A", "A", "pick")>>

(***************************************************************************)
(* Entries that raise: no handler of the containers catches an exception   *)
(* of an entry, so the cycle ends at the first call that raises            *)
(***************************************************************************)
\* the calls of the trace that raise, bad being the keys of the entries
\* whose function raises for this event
RaisesAt(trace, bad) ==
    {i \in 1..Len(trace) : trace[i].t = "cb" /\ trace[i].key \in bad}

\* (variant: the exception of an entry is caught and the cycle goes on)
Abort_Caught(trace, bad) ==
    [i \in 1..Len(trace) |->
        IF i \in RaisesAt(trace, bad) THEN [trace[i] EXCEPT !.t = "raise"] ELSE trace[i]]

\* the steps made until the first call that raises, that call being the last
Abort(trace, bad) ==
    LET at == RaisesAt(trace, bad)
        i  == CHOOSE n \in at : \A o \in at : n <= o
    IN  IF at = {} THEN trace
        ELSE SubSeq(trace, 1, i - 1) \o <<[trace[i] EXCEPT !.t = "raise"]>>

\* a button_press_event / a pick_event during which an entry raises
HostRaise(p, handler, event, host, bad) ==
    LET trace == IF handler = "clickcb"
                 THEN clickcb(cbs, fwd, ax, seed, p, event, host)
                 ELSE pickcb(cbs, fwd, ax, seed, p, event, host)
    IN  /\ RaisesAt(trace, bad) # {}
        /\ cycle' = Cycle(handler, p, event, host, Abort(trace, bad))
        /\ ret' = Outcome(handler, "Exception", "raised by an entry", FALSE, <<>>)
        /\ UNCHANGED <<cbs, fwd, ax, seed, arts>>

\* the keys of the entries of the bucket that the event selects on m
KeysOn(method, m, event) ==
    LET d == cbs[m][method][EventBucket(event)] IN {d[i].k : i \in 1..Len(d)}

NextRaise ==
    \/ \E m \in Maps, method \in ClickMethods :
          \E c \in OrderCallsOf(method) : \E t \in OrderTargetsOf(method, c.callback) :
             AttachClick(m, method, c.callback, t[1], t[2], c.kwargs)
    \/ \E m \in Maps, method \in ClickMethods :
          \E ID \in SeqToSet(attached_callbacks(method, cbs[m][method])) :
             RemoveClick(m, method, ID)
    \/ \E m \in Maps, b \in OrderClicks :
          LET event == ClickOn(ax, m, b[1], b[2], 0, 1)
          IN  \E bad \in SUBSET KeysOn("click", m, event) :
                 HostRaise(m, "clickcb", event, Idle(Maps), bad)
    \/ \E m \in Maps, b \in OrderClicks :
          LET event == PickOn(ax, m, 0, b[1], b[2])
          IN  \E bad \in SUBSET KeysOn("pick", m, event) :
                 HostRaise(m, "pickcb", event, Idle(Maps), bad)

SpecRaise == InitOrder /\ [][NextRaise]_vars

(***************************************************************************)
(* C32: if an entry raises during a click or pick dispatch cycle, none of  *)
(* the entries ordered after it in that cycle is called, and the           *)
(* enumeration of the attached callbacks is unchanged by the aborted       *)
(* cycle.                                                                  *)
(***************************************************************************)
RaisedIn(c) == {i \in 1..Len(c.trace) : c.trace[i].t = "raise"}

\* the cycle ends with the call that raises: the entries ordered before it
\* have been called, each once, and no entry ordered after it, no clearing
\* and no update follows
RaiseEndsCycle ==
    ret.status = "Exception"
    => \E i \in RaisedIn(cycle) :
          LET st    == cycle.trace[i]
              order == sort_cbs(st.method, BucketOf(st.method, st.m, cycle.event), seed)
              n     == IndexOf(order, st.key)
          IN  /\ RaisedIn(cycle) = {i}
              /\ i = Len(cycle.trace)
              /\ i = n
              /\ \A j \in 1..(n - 1) : cycle.trace[j].t = "cb" /\ cycle.trace[j].key = order[j]
              /\ \A j \in (n + 1)..Len(order) :
                    \A k \in 1..Len(cycle.trace) : cycle.trace[k].key # order[j]

\* a cycle that raises leaves the enumeration of every container as it was
RaiseKeepsRegistry ==
    ret'.status = "Exception"
    => \A m \in DOMAIN cbs : \A method \in Methods :
          attached_callbacks(method, cbs'[m][method]) = attached_callbacks(method, cbs[m][method])

C32_RaiseAbortsCycle == [](RaiseEndsCycle) /\ [][RaiseKeepsRegistry]_vars

\* the first of two entries of one bucket has raised: the second, ordered
\* after it, has not been called
C32_Witness ==
    /\ ret.status = "Exception"
    /\ Len(BucketOf(MethodOf(cycle.handler), cycle.on, cycle.event)) = 2
    /\ Len(cycle.trace) = 1
    /\ cycle.trace[1].t = "raise"

(***************************************************************************)
(* C33: no dispatch cycle (click, pick or keypress; direct or forwarded;   *)
(* with or without a matching bucket; forwarding into a peer without       *)
(* entries included) changes the enumeration of the attached callbacks of  *)
(* any instance, and a lookup miss raises no error.                        *)
(***************************************************************************)
DispatchHandlers == PointerHandlers \cup {"_onpress"}

\* the enumerations of all containers
Enumerations(c) ==
    [m \in DOMAIN c |-> [method \in Methods |-> attached_callbacks(method, c[m][method])]]

\* a step that handles a host event returns normally and leaves every
\* enumeration as it was
DispatchKeepsRegistry ==
    ret'.op \in DispatchHandlers
    => /\ Enumerations(cbs') = Enumerations(cbs)
       /\ ret'.status = "ok"

\* a Maps object without an entry for the event is not called, whether it
\* is dispatched directly or replayed into
MissIsSilent ==
    cycle.handler \in DispatchHandlers
    => /\ ret.status = "ok"
       /\ \A m \in DOMAIN cbs :
             BucketOf(MethodOf(cycle.handler), m, cycle.event) = <<>>
             => \A i \in 1..Len(cycle.trace) :
                   cycle.trace[i].t = "cb" => cycle.trace[i].m # m

C33_DispatchKeepsRegistry == [](MissIsSilent) /\ [][DispatchKeepsRegistry]_vars

\* a click on A, which has an entry and forwards to B, which has none: the
\* entry of A has been called, the replay into B has called nothing
C33_Witness ==
    /\ cycle.handler = "clickcb" /\ ret.status = "ok"
    /\ "B" \in SeqToSet(Peers(fwd, "A", "click"))
    /\ BucketOf("click", "B", cycle.event) = <<>>
    /\ \E i \in 1..Len(cycle.trace) :
          cycle.trace[i].t = "after_update" /\ cycle.trace[i].m = "B" /\ cycle.trace[i].via = "A"
    /\ \E i \in 1..Len(cycle.trace) : cycle.trace[i].t = "cb" /\ cycle.trace[i].m = "A"

\* a key is pressed on a parent without an entry for it
C33_WitnessKey ==
    /\ cycle.handler = "_onpress" /\ ret.status = "ok"
    /\ BucketOf("keypress", cycle.on, cycle.event) = <<>>
    /\ TotalEntries(cbs) > 0
    /\ cycle.trace = <<>>

(***************************************************************************)
(* Forwarding in a loop: a Maps object that forwards to itself, and two    *)
(* that forward to each other                                              *)
(***************************************************************************)
LoopCalls == {<<"A", <<"A">>>>, <<"A", <<"B">>>>, <<"B", <<"A">>>>}

NextLoop ==
    \/ \E m \in Views, method \in ClickMethods :
          /\ OneClass(method)
          /\ AttachClick(m, method, FwdCallOf(method).callback, FALSE, 1, {})
    \/ \E method \in ClickMethods, call \in LoopCalls :
          OneClass(method) /\ ForwardEvents(call[1], method, call[2])
    \/ \E p \in Parents(Views) : \E m \in OnFigure(p, Views) :
          OneClass("click") /\ HostClick(p, ClickOn(ax, m, FALSE, 1, 0, 1), Idle(Views))
    \/ \E p \in Parents(Views) : \E m \in OnFigure(p, Views) :
          OneClass("pick") /\ HostPick(p, PickOn(ax, m, 0, FALSE, 1), Idle(Views))

SpecLoop == InitFwd /\ [][NextLoop]_vars

(***************************************************************************)
(* C34: handling one host event ends after finitely many calls of entries, *)
(* for every forwarding configuration, loops (A forwards to B and B to A)  *)
(* and an instance that forwards to itself included: a replay into a peer  *)
(* runs the entries of the peer and does not forward again.                *)
(***************************************************************************)
\* how often the handler itself / the _fwd_cb of x has called the entry key
\* of y in the cycle
TimesCalledBy(c, x, y, key) ==
    Cardinality({i \in 1..Len(c.trace) :
        /\ c.trace[i].t = "cb" /\ c.trace[i].m = y
        /\ c.trace[i].via = x /\ c.trace[i].key = key})

\* how often y is among the peers of x
TimesPeer(x, y, method) ==
    Cardinality({i \in 1..Len(Peers(fwd, x, method)) : Peers(fwd, x, method)[i] = y})

\* every call of the cycle is made by the handler itself, once per entry at
\* most, or by the _fwd_cb of a Maps object x the handler dispatches, once
\* per entry of a peer of x at most
C34_ReplayDoesNotForward ==
    cycle.handler \in {"clickcb", "pickcb"}
    => LET method == MethodOf(cycle.handler)
       IN  /\ \A i \in 1..Len(cycle.trace) :
                 cycle.trace[i].via # Direct => cycle.trace[i].via \in Forwarders(cycle)
           /\ \A y \in DOMAIN cbs :
                 LET d == BucketOf(method, y, cycle.event)
                 IN  /\ \A i \in 1..Len(cycle.trace) :
                           (cycle.trace[i].t = "cb" /\ cycle.trace[i].m = y)
                           => DictHas(d, cycle.trace[i].key)
                     /\ \A n \in 1..Len(d) :
                           /\ TimesCalledBy(cycle, Direct, y, d[n].k) <= 1
                           /\ \A x \in DOMAIN cbs :
                                 TimesCalledBy(cycle, x, y, d[n].k) <= TimesPeer(x, y, method)

\* A forwards to itself: a click on A has called the entry of A twice, once
\* by the handler and once by the replay, and no more
C34_Witness ==
    /\ cycle.handler = "clickcb"
    /\ Peers(fwd, "A", "click") = <<"A">>
    /\ Len(Calls(cycle.trace)) = 2
    /\ cycle.trace[1].via = Direct /\ cycle.trace[1].m = "A"
    /\ cycle.trace[2].via = "A" /\ cycle.trace[2].m = "A"

\* A and B forward to each other: a click on A has called the entry of A
\* once and the entry of B once
C34_WitnessLoop ==
    /\ cycle.handler = "clickcb" /\ TriggeredOn(cycle) = {"A"}
    /\ Peers(fwd, "A", "click") = <<"B">> /\ Peers(fwd, "B", "click") = <<"A">>
    /\ Len(Calls(cycle.trace)) = 2
    /\ Calls(cycle.trace)[1].m = "A" /\ Calls(cycle.trace)[2].m = "B"

(***************************************************************************)
(* C35: in every container and every reachable registry state, the         *)
(* sequence number given to a newly attached entry is strictly greater     *)
(* than the sequence number of every entry of the same base_name in the    *)
(* target bucket, so within a bucket the insertion order of the entries of *)
(* one base_name is always their ascending-sequence order.                 *)
(***************************************************************************)
\* the entries of one base_name stand in the dict in ascending sequence
Ascending(d) ==
    \A i \in 1..Len(d) : \A j \in (i + 1)..Len(d) :
        BaseName(d[i].k) = BaseName(d[j].k) => Sequence(d[i].k) < Sequence(d[j].k)

C35_InsertionOrderAscending ==
    \A c \in Containers :
        LET reg == cbs[c[1]][c[2]]
        IN  /\ \A b \in BucketsOf(c[2]) : Ascending(reg[b])
            /\ \A inp \in AttachInputs(c[2]) :
                  LET r == Attach(c[2], reg, inp)
                      b == TargetBucket(c[2], inp)
                  IN  r.status = "ok"
                      => /\ Len(r.reg[b]) = Len(reg[b]) + 1
                         /\ r.reg[b][Len(r.reg[b])].k = r.key
                         /\ \A i \in 1..Len(reg[b]) :
                               BaseName(reg[b][i].k) = BaseName(r.key)
                               => Sequence(reg[b][i].k) < Sequence(r.key)
                         /\ Ascending(r.reg[b])

\* the first of two entries of one base_name has been removed: the bucket
\* holds sequence 1 only, and 0 is free again
C35_Witness ==
    /\ ret.op = "remove" /\ ret.status = "ok"
    /\ \E c \in Containers : \E b \in BucketsOf(c[2]) :
          LET d == cbs[c[1]][c[2]][b]
          IN  Len(d) = 1 /\ Sequence(d[1].k) = 1

(***************************************************************************)
(* Registry calls and forwarding calls of all classes side by side         *)
(***************************************************************************)
FrameViews == {"A", "B"}

\* the classes whose containers forward in these runs
FrameMethods == {"click", "keypress"}

NextFrame ==
    \/ \E m \in FrameViews, method \in ClickMethods :
          AttachClick(m, method, FwdCallOf(method).callback, FALSE, 1, {})
    \/ \E m \in FrameViews :
          AttachKey(m, FwdCallOf("keypress").callback, <<"a">>, {})
    \/ \E m \in FrameViews, method \in ClickMethods :
          \E ID \in SeqToSet(attached_callbacks(method, cbs[m][method])) :
             RemoveClick(m, method, ID)
    \/ \E m \in FrameViews :
          \E ID \in SeqToSet(attached_callbacks("keypress", cbs[m]["keypress"])) :
             RemoveKey(m, ID)
    \/ \E method \in FrameMethods : ForwardEvents("A", method, <<"B">>)
    \/ \E method \in FrameMethods : ShareEvents("A", method, <<"B">>)
    \/ HostClick("A", ClickOn(ax, "A", FALSE, 1, 0, 1), Idle(Views))

SpecFrame == InitFwd /\ [][NextFrame]_vars

(***************************************************************************)
(* C36: registry and forwarding state are independent: attach and remove   *)
(* never change any forwarding set; forward_events and share_events on the *)
(* container of one event class never change any registry and never change *)
(* the forwarding sets of the other event classes; and a successful attach *)
(* triggers no dispatch, cleanup scheduling or redraw.                     *)
(***************************************************************************)
RegistryKeepsForwarding ==
    ret'.op \in {"attach", "remove"} => fwd' = fwd

ForwardingKeepsRegistry ==
    ret'.op \in {"forward_events", "share_events"}
    => /\ cbs' = cbs
       /\ \E method \in Methods :
             \A m \in DOMAIN fwd : \A o \in Methods \ {method} : fwd'[m][o] = fwd[m][o]

AttachIsQuiet ==
    (ret'.op = "attach" /\ ret'.status = "ok")
    => /\ cycle' = NoCycle
       /\ ret'.cleanup = <<>>
       /\ TotalEntries(cbs') = TotalEntries(cbs) + 1

C36_RegistryForwardingIndependent ==
    [][RegistryKeepsForwarding /\ ForwardingKeepsRegistry /\ AttachIsQuiet]_vars

\* A and B share their clicks and A forwards its keys to B, and an entry
\* has just been removed: the forwarding sets are as they were
C36_Witness ==
    /\ ret.op = "remove" /\ ret.hit
    /\ Peers(fwd, "A", "click") = <<"B">> /\ Peers(fwd, "B", "click") = <<"A">>
    /\ Peers(fwd, "A", "keypress") = <<"B">> /\ Peers(fwd, "B", "keypress") = <<>>
    /\ Peers(fwd, "A", "pick") = <<>>
    /\ TotalEntries(cbs) > 0

\* share_events has just returned while entries of two classes are attached
C36_WitnessShare ==
    /\ ret.op = "share_events"
    /\ NumEntries("click", cbs["A"]["click"]) = 1
    /\ NumEntries("keypress", cbs["B"]["keypress"]) = 1
    /\ Peers(fwd, "B", "keypress") = <<"A">> /\ Peers(fwd, "A", "click") = <<>>

(***************************************************************************)
(* _cb_container._clear_temporary_artists                                  *)
(***************************************************************************)
RECURSIVE clear_temporary_artists_LeavesOne(_, _, _)
\* (variant: the loop stops while one artist is left in the list)
clear_temporary_artists_LeavesOne(method, temp, queue) ==
    IF Len(temp) > 1
    THEN clear_temporary_artists_LeavesOne(method, SubSeq(temp, 1, Len(temp) - 1),
             [queue EXCEPT ![method] = Append(@, temp[Len(temp)])])
    ELSE [temporary_artists |-> temp, artists_to_clear |-> queue]

RECURSIVE clear_temporary_artists(_, _, _)
\* the while loop: pop(-1) of the list, append to the queue of self._method
clear_temporary_artists(method, temp, queue) ==
    IF Len(temp) > 0
    THEN clear_temporary_artists(method, SubSeq(temp, 1, Len(temp) - 1),
             [queue EXCEPT ![method] = Append(@, temp[Len(temp)])])
    ELSE [temporary_artists |-> temp, artists_to_clear |-> queue]

\* the artists made so far
NumArtists ==
    LET n(m, method) == Len(temporary_artists[m][method]) + Len(artists_to_clear[m][method])
        total[S \in SUBSET ((DOMAIN cbs) \X Methods)] ==
            IF S = {} THEN 0
            ELSE LET c == CHOOSE x \in S : TRUE IN n(c[1], c[2]) + total[S \ {c}]
    IN  total[(DOMAIN cbs) \X Methods]

\* a callback of the container (m, method) makes a temporary artist and
\* appends it to the list of the container
MakeArtist(m, method) ==
    /\ NumArtists < MaxArtists
    /\ temporary_artists' = [temporary_artists EXCEPT ![m][method] =
                                Append(@, [id |-> NumArtists + 1, by |-> method])]
    /\ ret' = Returned("callback")
    /\ cycle' = NoCycle
    /\ UNCHANGED <<cbs, fwd, ax, seed, artists_to_clear>>

\* the blit manager of m runs the clear action of the container (m, method)
ClearTemporaryArtists(m, method) ==
    LET r == clear_temporary_artists(method, temporary_artists[m][method], artists_to_clear[m])
    IN  /\ temporary_artists' = [temporary_artists EXCEPT ![m][method] = r.temporary_artists]
        /\ artists_to_clear' = [artists_to_clear EXCEPT ![m] = r.artists_to_clear]
        /\ ret' = Returned("_clear_temporary_artists")
        /\ cycle' = NoCycle
        /\ UNCHANGED <<cbs, fwd, ax, seed>>

NextClear ==
    \/ \E m \in Maps, method \in Methods : MakeArtist(m, method)
    \/ \E m \in Maps, method \in Methods : ClearTemporaryArtists(m, method)

SpecClear == Init /\ [][NextClear]_vars

(***************************************************************************)
(* C37: the end-of-cycle cleanup pass of a container moves every artifact  *)
(* in its ephemeral-artifact list into the clear queue of that container's *)
(* event class exactly once and leaves the list empty; no artifact is      *)
(* lost, duplicated or placed in another event class's queue.              *)
(***************************************************************************)
\* how often the artist a stands in the sequence q
Occurs(q, a) == Cardinality({i \in 1..Len(q) : q[i] = a})

\* the pass on the container (m, method), from the lists as they are
PassMovesAll(m, method) ==
    LET temp  == temporary_artists[m][method]
        queue == artists_to_clear[m]
        r     == clear_temporary_artists(method, temp, queue)
    IN  /\ r.temporary_artists = <<>>
        /\ Len(r.artists_to_clear[method]) = Len(queue[method]) + Len(temp)
        /\ \A i \in 1..Len(temp) :
              Occurs(r.artists_to_clear[method], temp[i]) = Occurs(queue[method], temp[i]) + 1
        /\ \A i \in 1..Len(queue[method]) :
              Occurs(r.artists_to_clear[method], queue[method][i])
                 = Occurs(queue[method], queue[method][i]) + Occurs(temp, queue[method][i])
        /\ \A o \in Methods \ {method} : r.artists_to_clear[o] = queue[o]

\* every artist made stands in exactly one place, the list or the queue of
\* the class of the container whose callback made it
EveryArtistOnce ==
    \A n \in 1..NumArtists :
        \E m \in DOMAIN cbs : \E method \in Methods :
            LET a == [id |-> n, by |-> method]
            IN  Occurs(temporary_artists[m][method], a)
                   + Occurs(artists_to_clear[m][method], a) = 1

C37_CleanupPassMovesAll ==
    /\ \A m \in DOMAIN cbs : \A method \in Methods : PassMovesAll(m, method)
    /\ EveryArtistOnce

\* the pass of the click container has moved two artists into the queue of
\* the clicks while the list of the pick container holds one
C37_Witness ==
    /\ ret.op = "_clear_temporary_artists"
    /\ temporary_artists["A"]["click"] = <<>>
    /\ Len(artists_to_clear["A"]["click"]) = 2
    /\ Len(temporary_artists["A"]["pick"]) = 1
    /\ artists_to_clear["A"]["pick"] = <<>>

====
